---------------------------- MODULE Spec2Model ----------------------------
(***************************************************************************)
(* Xml-Grid-Visualizer: the XML core of src/utils.ts (parseXML,            *)
(* serializeXML, escapeXML, prettifyXML) as a state machine, Spec, and the *)
(* grid of src/unnamed/part_001 (GridNode, NodeTable and the view actions  *)
(* of App) as a second one, GridSpec.                                      *)
(*                                                                         *)
(* A string is a sequence of code units.  A unit is one character, written *)
(* as a one-character TLA+ string, except that the words the source and    *)
(* the examples spell out ("__root__", "parsererror", "xml", "DOCTYPE",    *)
(* "amp", ...) are kept as one unit each: every such word is a run of name *)
(* characters and is classified as such below.                             *)
(*                                                                         *)
(* The Node id of convertNode (utils.ts:56, Math.random) is read by none   *)
(* of the operations modelled here and is not part of the Node record: the *)
(* variable ids counts, for each id, the Nodes returned with it.           *)
(*                                                                         *)
(* AppSpec is the whole of App: the input area, its handlers and the parse *)
(* they start, with the grid of the result.  GridLiveSpec is GridSpec with *)
(* the effects React has scheduled eventually run.                         *)
(***************************************************************************)
EXTENDS Naturals, Sequences, FiniteSets

VARIABLES
  xmlInput,     \* the text handed to parseXML / prettifyXML
  node,         \* the XMLNode handed to serializeXML (NullNode: none)
  atLevel,      \* the level handed to serializeXML
  pc,           \* which calls have been made so far
  parsed,       \* ParseResult of parseXML(xmlInput)
  pretty,       \* result of prettifyXML(xmlInput)
  prettyAgain,  \* result of prettifyXML(pretty)
  serialized,   \* result of serializeXML(node, atLevel)
  reparsed,     \* ParseResult of parseXML(serialized)
  strInput,     \* the string handed to escapeXML (Null: none)
  escaped,      \* result of escapeXML(strInput)
  raised,       \* the exception convertNode raised in parseXML(xmlInput)
  ids,          \* how many of the Nodes parseXML has returned to the caller
                \* got each id (the Nodes prettifyXML parses never leave it)
  inputXml,     \* App: the text of the input area
  error,        \* App: the error message shown (Null: none)
  reading,      \* the contents of the dropped files a FileReader is reading
  parsedData,   \* App: the root the grid shows (NullNode: none)
  viewAction,   \* App: the last view action dispatched
  mounted,      \* the mounted GridNode and NodeTable components: their
                \* path, isExpanded and isRecursivelyExpanded
  pending,      \* the components whose effect has yet to run
  actionPending,\* viewAction was dispatched and its effects have yet to run
  crashed       \* a render threw: nothing is mounted any more

gridVars ==
  <<inputXml, error, reading, parsedData, viewAction, mounted, pending,
    actionPending, crashed>>

vars ==
  <<xmlInput, node, atLevel, pc, parsed, pretty, prettyAgain, serialized,
    reparsed, strInput, escaped, raised, ids, inputXml, error, reading,
    parsedData, viewAction, mounted, pending, actionPending, crashed>>

(***************************************************************************)
(* null of TypeScript                                                      *)
(***************************************************************************)
\* string | null: a unit no string contains
Null == <<"<null>">>
\* XMLNode | null, Element | null
NullNode == [null |-> TRUE]

(***************************************************************************)
(* Characters                                                              *)
(***************************************************************************)
WhiteSpace == {" ", "\t", "\n", "\r"}

NameStartChar ==
  {"a", "b", "k", "n", "s", "x", "y", "root", "item", "list", "constructor",
   "bookstore", "book", "category", "title",
   "__root__", "parsererror", "xml",
   "XML", "version", "encoding", "standalone", "DOCTYPE", "CDATA",
   "amp", "lt", "gt", "quot", "apos", "not", "at", "all"}

NameChar == NameStartChar \cup {"1", "2", "9", "1.0", "-"}

Digit == {"1", "9"}

At(s, i) == IF i >= 1 /\ i <= Len(s) THEN s[i] ELSE "<eof>"

RECURSIVE SkipWS(_, _)
\* the first position at or after i that holds no white space
SkipWS(s, i) ==
  IF i <= Len(s) /\ s[i] \in WhiteSpace THEN SkipWS(s, i + 1) ELSE i

RECURSIVE IndexOf(_, _, _)
\* the first position at or after i that holds unit c; 0 if there is none
IndexOf(s, c, i) ==
  IF i > Len(s) THEN 0
  ELSE IF s[i] = c THEN i
  ELSE IndexOf(s, c, i + 1)

StartsWith(s, p, i) ==
  /\ i + Len(p) - 1 <= Len(s)
  /\ \A k \in 1..Len(p) : s[i + k - 1] = p[k]

RECURSIVE Find(_, _, _)
\* the first position at or after i where p starts; 0 if there is none
Find(s, p, i) ==
  IF i + Len(p) - 1 > Len(s) THEN 0
  ELSE IF StartsWith(s, p, i) THEN i
  ELSE Find(s, p, i + 1)

Drop(s, n) == SubSeq(s, n + 1, Len(s))

RECURSIVE TrimEnd(_)
TrimEnd(s) ==
  IF Len(s) > 0 /\ s[Len(s)] \in WhiteSpace
  THEN TrimEnd(SubSeq(s, 1, Len(s) - 1)) ELSE s

\* String.prototype.trim
Trim(s) == TrimEnd(Drop(s, SkipWS(s, 1) - 1))

RECURSIVE Repeat(_, _)
\* String.prototype.repeat
Repeat(s, n) == IF n = 0 THEN <<>> ELSE s \o Repeat(s, n - 1)

(***************************************************************************)
(* DOMParser.parseFromString(text, "text/xml"): the platform's XML parser, *)
(* a recursive descent over the XML 1.0 grammar restricted to elements,    *)
(* attributes, character data, the predefined entities, character          *)
(* references, CDATA sections, comments, processing instructions, the XML  *)
(* declaration and a DOCTYPE without internal subset.                      *)
(***************************************************************************)
Fail == [ok |-> FALSE, pos |-> 0, val |-> <<>>]
Ok(p, v) == [ok |-> TRUE, pos |-> p, val |-> v]

DomElement(n, a, c) ==
  [nodeType |-> "ELEMENT_NODE", nodeName |-> n, attributes |-> a, childNodes |-> c]
DomText(v) == [nodeType |-> "TEXT_NODE", nodeValue |-> v]
DomCData(v) == [nodeType |-> "CDATA_SECTION_NODE", nodeValue |-> v]
DomComment(v) == [nodeType |-> "COMMENT_NODE", nodeValue |-> v]
DomPI(t) == [nodeType |-> "PROCESSING_INSTRUCTION_NODE", nodeName |-> t]

RECURSIVE NormalizeEOL(_)
\* XML 1.0 2.11: CR LF and a lone CR are read as LF
NormalizeEOL(s) ==
  IF s = <<>> THEN <<>>
  ELSE IF s[1] = "\r"
       THEN <<"\n">> \o NormalizeEOL(Drop(s, IF At(s, 2) = "\n" THEN 2 ELSE 1))
       ELSE <<s[1]>> \o NormalizeEOL(Drop(s, 1))

\* F applied to the value of r
With(r, F(_)) == CHOOSE v \in {F(x) : x \in {r}} : TRUE

RECURSIVE NameEnd(_, _)
NameEnd(s, i) ==
  IF i <= Len(s) /\ s[i] \in NameChar THEN NameEnd(s, i + 1) ELSE i

ParseName(s, i) ==
  IF At(s, i) \in NameStartChar
  THEN With(NameEnd(s, i + 1), LAMBDA e : Ok(e, SubSeq(s, i, e - 1)))
  ELSE Fail

\* the five predefined entities
EntityValue(n) ==
  CASE n = <<"amp">> -> "&"
    [] n = <<"lt">> -> "<"
    [] n = <<"gt">> -> ">"
    [] n = <<"quot">> -> "\""
    [] n = <<"apos">> -> "'"
    [] OTHER -> "<eof>"

RECURSIVE DigitsEnd(_, _)
DigitsEnd(s, i) ==
  IF i <= Len(s) /\ s[i] \in Digit THEN DigitsEnd(s, i + 1) ELSE i

\* &#9; is the tab; the other decimal references over Digit that name a
\* character of XML 1.0 spell letters, which the texts below do not use
CharRefValue(d) == IF d = <<"9">> THEN "\t" ELSE "<eof>"

\* s[i] = "&": an entity or character reference
ParseReference(s, i) ==
  IF At(s, i + 1) = "#"
  THEN With(DigitsEnd(s, i + 2), LAMBDA e :
         With(CharRefValue(SubSeq(s, i + 2, e - 1)), LAMBDA c :
           IF At(s, e) = ";" /\ c # "<eof>" THEN Ok(e + 1, c) ELSE Fail))
  ELSE With(ParseName(s, i + 1), LAMBDA n :
         With(EntityValue(n.val), LAMBDA c :
           IF n.ok /\ At(s, n.pos) = ";" /\ c # "<eof>"
           THEN Ok(n.pos + 1, c) ELSE Fail))

RECURSIVE ParseAttValue(_, _, _, _)
\* the value up to the closing quote q, references expanded and white space
\* normalized to spaces (XML 1.0 3.3.3)
ParseAttValue(s, i, q, acc) ==
  IF i > Len(s) \/ s[i] = "<" THEN Fail
  ELSE IF s[i] = q THEN Ok(i + 1, acc)
  ELSE With(IF s[i] = "&" THEN ParseReference(s, i)
            ELSE IF s[i] \in WhiteSpace THEN Ok(i + 1, " ")
            ELSE Ok(i + 1, s[i]),
            LAMBDA r : IF r.ok
                       THEN ParseAttValue(s, r.pos, q, Append(acc, r.val))
                       ELSE Fail)

\* s[j] starts an attribute:  name = "value"
ParseAttribute(s, j) ==
  With(ParseName(s, j), LAMBDA n :
    IF ~n.ok THEN Fail
    ELSE With(SkipWS(s, n.pos), LAMBDA e :
           With(SkipWS(s, e + 1), LAMBDA q :
             IF At(s, e) # "=" \/ At(s, q) \notin {"\"", "'"} THEN Fail
             ELSE With(ParseAttValue(s, q + 1, s[q], <<>>), LAMBDA v :
                    IF v.ok
                    THEN Ok(v.pos, [name |-> n.val, value |-> v.val])
                    ELSE Fail))))

RECURSIVE ParseAttributes(_, _, _, _)
\* the attributes from i up to a unit of stops; white space comes before
\* each, and no name comes twice
ParseAttributes(s, i, stops, acc) ==
  With(SkipWS(s, i), LAMBDA j :
    IF At(s, j) \in stops THEN Ok(j, acc)
    ELSE IF j = i THEN Fail
    ELSE With(ParseAttribute(s, j), LAMBDA a :
           IF ~a.ok \/ \E k \in 1..Len(acc) : acc[k].name = a.val.name
           THEN Fail
           ELSE ParseAttributes(s, a.pos, stops, Append(acc, a.val))))

IsXmlTarget(n) == n \in {<<"xml">>, <<"XML">>}

\* s[i..i+1] = "<?": a processing instruction; the target xml is reserved
ParsePI(s, i) ==
  With(ParseName(s, i + 2), LAMBDA n :
    IF ~n.ok \/ IsXmlTarget(n.val) THEN Fail
    ELSE With(Find(s, <<"?", ">">>, n.pos), LAMBDA e :
           IF e = 0 \/ (e > n.pos /\ s[n.pos] \notin WhiteSpace) THEN Fail
           ELSE Ok(e + 2, DomPI(n.val))))

\* s[i..i+1] = "<!": a comment or a CDATA section
ParseDecl(s, i) ==
  IF StartsWith(s, <<"-", "-">>, i + 2)
  THEN With(Find(s, <<"-", "-">>, i + 4), LAMBDA e :
         IF e # 0 /\ At(s, e + 2) = ">"
         THEN Ok(e + 3, DomComment(SubSeq(s, i + 4, e - 1)))
         ELSE Fail)
  ELSE IF StartsWith(s, <<"[", "CDATA", "[">>, i + 2)
  THEN With(Find(s, <<"]", "]", ">">>, i + 5), LAMBDA e :
         IF e # 0 THEN Ok(e + 3, DomCData(SubSeq(s, i + 5, e - 1)))
         ELSE Fail)
  ELSE Fail

\* character data c joins the text node that ends acc, or starts one
AppendText(acc, c) ==
  IF Len(acc) > 0 /\ acc[Len(acc)].nodeType = "TEXT_NODE"
  THEN [acc EXCEPT ![Len(acc)].nodeValue = Append(@, c)]
  ELSE Append(acc, DomText(<<c>>))

\* s[i..] = "</" name S? ">": the position after the end tag of name; 0 if
\* something else is there
ParseETag(s, i, name) ==
  IF ~StartsWith(s, <<"<", "/">>, i) THEN 0
  ELSE With(ParseName(s, i + 2), LAMBDA m :
         IF ~m.ok \/ m.val # name THEN 0
         ELSE With(SkipWS(s, m.pos), LAMBDA g :
                IF At(s, g) = ">" THEN g + 1 ELSE 0))

RECURSIVE ParseContent(_, _, _), ParseElement(_, _)
\* content from i up to an end tag or the end of the text
ParseContent(s, i, acc) ==
  IF i > Len(s) \/ StartsWith(s, <<"<", "/">>, i) THEN Ok(i, acc)
  ELSE IF StartsWith(s, <<"]", "]", ">">>, i) THEN Fail
  ELSE With(IF s[i] = "&" THEN ParseReference(s, i)
            ELSE IF s[i] # "<" THEN Ok(i + 1, s[i])
            ELSE IF At(s, i + 1) = "?" THEN ParsePI(s, i)
            ELSE IF At(s, i + 1) = "!" THEN ParseDecl(s, i)
            ELSE ParseElement(s, i),
            LAMBDA m :
              IF ~m.ok THEN Fail
              ELSE ParseContent(s, m.pos,
                                IF s[i] = "<" THEN Append(acc, m.val)
                                ELSE AppendText(acc, m.val)))

\* s[i] = "<": an element, empty or with matching start and end tag
ParseElement(s, i) ==
  With(ParseName(s, i + 1), LAMBDA n :
    IF ~n.ok THEN Fail
    ELSE With(ParseAttributes(s, n.pos, {">", "/"}, <<>>), LAMBDA a :
           IF ~a.ok THEN Fail
           ELSE IF s[a.pos] = "/"
           THEN IF At(s, a.pos + 1) = ">"
                THEN Ok(a.pos + 2, DomElement(n.val, a.val, <<>>))
                ELSE Fail
           ELSE With(ParseContent(s, a.pos + 1, <<>>), LAMBDA c :
                  IF ~c.ok THEN Fail
                  ELSE With(ParseETag(s, c.pos, n.val), LAMBDA g :
                         IF g = 0 THEN Fail
                         ELSE Ok(g, DomElement(n.val, a.val, c.val))))))

RECURSIVE SkipMisc(_, _)
\* past white space, comments and processing instructions; 0 on an error
SkipMisc(s, i) ==
  With(SkipWS(s, i), LAMBDA j :
    IF \/ StartsWith(s, <<"<", "?">>, j)
       \/ StartsWith(s, <<"<", "!", "-", "-">>, j)
    THEN With(IF s[j + 1] = "?" THEN ParsePI(s, j) ELSE ParseDecl(s, j),
              LAMBDA m : IF m.ok THEN SkipMisc(s, m.pos) ELSE 0)
    ELSE j)

\* the position after an XML declaration at the start of s; 1 if there is
\* none; 0 if it is malformed
ParseXMLDecl(s) ==
  IF StartsWith(s, <<"<", "?">>, 1) /\ IsXmlTarget(<<At(s, 3)>>)
     /\ At(s, 4) \notin NameChar
  THEN With(ParseAttributes(s, 4, {"?"}, <<>>), LAMBDA a :
         IF /\ s[3] = "xml" /\ a.ok /\ At(s, a.pos + 1) = ">"
            /\ [k \in 1..Len(a.val) |-> a.val[k].name]
                 \in {<<<<"version">>>>,
                      <<<<"version">>, <<"encoding">>>>,
                      <<<<"version">>, <<"standalone">>>>,
                      <<<<"version">>, <<"encoding">>, <<"standalone">>>>}
            /\ a.val[1].value = <<"1.0">>
         THEN a.pos + 2 ELSE 0)
  ELSE 1

\* the position after a document type declaration at i; i if there is none;
\* 0 if it is malformed
ParseDoctype(s, i) ==
  IF StartsWith(s, <<"<", "!", "DOCTYPE">>, i)
  THEN With(ParseName(s, SkipWS(s, i + 3)), LAMBDA n :
         With(SkipWS(s, n.pos), LAMBDA g :
           IF At(s, i + 3) \in WhiteSpace /\ n.ok /\ At(s, g) = ">"
           THEN g + 1 ELSE 0))
  ELSE i

\* the position of the document element, after the prolog; 0 on an error
ParseProlog(s) ==
  With(ParseXMLDecl(s), LAMBDA d :
    IF d = 0 THEN 0
    ELSE With(SkipMisc(s, d), LAMBDA m1 :
           IF m1 = 0 THEN 0
           ELSE With(ParseDoctype(s, m1), LAMBDA t :
                  IF t = 0 THEN 0 ELSE SkipMisc(s, t))))

\* the document element, or NullNode when the text is not well-formed
ParseDocument(text) ==
  With(NormalizeEOL(text), LAMBDA s :
    With(ParseProlog(s), LAMBDA p :
      IF p = 0 \/ At(s, p) # "<" THEN NullNode
      ELSE With(ParseElement(s, p), LAMBDA e :
             IF e.ok /\ SkipMisc(s, e.pos) = Len(s) + 1 THEN e.val
             ELSE NullNode)))

\* the diagnostic the platform reports
ParserErrorText == <<"XML Parsing Error: not well-formed">>

\* parseFromString never throws: on an error the document it returns holds
\* a parsererror element with the diagnostic
ParseFromString(text) ==
  With(ParseDocument(text), LAMBDA e :
    [documentElement |->
       IF e = NullNode
       THEN DomElement(<<"parsererror">>, <<>>, <<DomText(ParserErrorText)>>)
       ELSE e])

\* Document.querySelector(name): the first element, in document order, named
\* name at or below element e; NullNode if there is none
RECURSIVE QuerySelector(_, _), QuerySelectorAll(_, _)
QuerySelectorAll(nodes, name) ==
  IF nodes = <<>> THEN NullNode
  ELSE With(IF nodes[1].nodeType = "ELEMENT_NODE"
            THEN QuerySelector(nodes[1], name) ELSE NullNode,
            LAMBDA hit : IF hit # NullNode THEN hit
                         ELSE QuerySelectorAll(Drop(nodes, 1), name))

QuerySelector(e, name) ==
  IF e.nodeName = name THEN e ELSE QuerySelectorAll(e.childNodes, name)

RECURSIVE TextContent(_), TextContentAll(_)
\* Node.textContent of an element: the text of its descendants
TextContentAll(nodes) ==
  IF nodes = <<>> THEN <<>>
  ELSE (CASE nodes[1].nodeType = "ELEMENT_NODE" -> TextContent(nodes[1])
          [] nodes[1].nodeType \in {"TEXT_NODE", "CDATA_SECTION_NODE"} ->
               nodes[1].nodeValue
          [] OTHER -> <<>>)
       \o TextContentAll(Drop(nodes, 1))

TextContent(e) == TextContentAll(e.childNodes)

(***************************************************************************)
(* src/utils.ts                                                            *)
(***************************************************************************)
\* a string in a condition: null and "" are falsy
Truthy(str) == str # Null /\ str # <<>>

XMLNode(n, a, ch, c) ==
  [name |-> n, attributes |-> a, children |-> ch, content |-> c]

ParseResult(r, e) == [root |-> r, error |-> e]

\* /^\s*<\?xml[^>]*\?>/i : the length of the match, 0 if there is none.
\* [^>]* runs up to the first ">", so the "?" is the unit before it.
DeclarationMatch(xml) ==
  With(SkipWS(xml, 1), LAMBDA i :
    With(IndexOf(xml, ">", i + 3), LAMBDA g :
      IF /\ StartsWith(xml, <<"<", "?">>, i)
         /\ At(xml, i + 2) \in {"xml", "XML"}
         /\ g > i + 3
         /\ xml[g - 1] = "?"
      THEN g ELSE 0))

\* /^\s*<!DOCTYPE[^>]*>/i : the length of the match, 0 if there is none
DoctypeMatch(xml) ==
  With(SkipWS(xml, 1), LAMBDA i :
    IF StartsWith(xml, <<"<", "!", "DOCTYPE">>, i)
    THEN IndexOf(xml, ">", i + 3) ELSE 0)

\* the two replace calls of parseXML
SanitizedXml(xmlString) ==
  With(Drop(xmlString, DeclarationMatch(xmlString)), LAMBDA noDecl :
    Drop(noDecl, DoctypeMatch(noDecl)))

WrappedXml(sanitizedXml) ==
  <<"<", "__root__", ">">> \o sanitizedXml \o <<"<", "/", "__root__", ">">>

RECURSIVE NodeContent_noSeparator(_, _)
\* the fragments put together with nothing between them
NodeContent_noSeparator(childNodes, content) ==
  IF childNodes = <<>> THEN content
  ELSE NodeContent_noSeparator(
         Drop(childNodes, 1),
         IF childNodes[1].nodeType \in {"TEXT_NODE", "CDATA_SECTION_NODE"}
         THEN With(Trim(childNodes[1].nodeValue), LAMBDA text :
                IF Truthy(text) THEN content \o text ELSE content)
         ELSE content)

RECURSIVE NodeContent(_, _)
\* the forEach of convertNode, text and CDATA children: content += text + " "
NodeContent(childNodes, content) ==
  IF childNodes = <<>> THEN content
  ELSE NodeContent(
         Drop(childNodes, 1),
         IF childNodes[1].nodeType \in {"TEXT_NODE", "CDATA_SECTION_NODE"}
         THEN With(Trim(childNodes[1].nodeValue), LAMBDA text :
                IF Truthy(text) THEN content \o text \o <<" ">> ELSE content)
         ELSE content)

RECURSIVE convertNode(_), NodeChildren(_)
\* the forEach of convertNode, element children
NodeChildren(childNodes) ==
  IF childNodes = <<>> THEN <<>>
  ELSE (IF childNodes[1].nodeType = "ELEMENT_NODE"
        THEN <<convertNode(childNodes[1])>> ELSE <<>>)
       \o NodeChildren(Drop(childNodes, 1))

convertNode(domNode) ==
  With(Trim(NodeContent(domNode.childNodes, <<>>)), LAMBDA content :
    XMLNode(domNode.nodeName,
            [i \in 1..Len(domNode.attributes) |->
               [name |-> domNode.attributes[i].name,
                value |-> domNode.attributes[i].value]],
            NodeChildren(domNode.childNodes),
            IF Truthy(content) THEN content ELSE Null))

\* UnwrapsTo with "children.length <= 1": children[0] of no children is
\* undefined, which is falsy like null
UnwrapsTo_atMostOneChild(convertedWrapper) ==
  IF /\ Len(convertedWrapper.children) <= 1
     /\ ~Truthy(convertedWrapper.content)
     /\ Len(convertedWrapper.attributes) = 0
  THEN IF Len(convertedWrapper.children) = 0 THEN NullNode
       ELSE convertedWrapper.children[1]
  ELSE [convertedWrapper EXCEPT !.name = <<"root">>]

\* UnwrapsTo without the test of the wrapper's content
UnwrapsTo_contentIgnored(convertedWrapper) ==
  IF /\ Len(convertedWrapper.children) = 1
     /\ Len(convertedWrapper.attributes) = 0
  THEN convertedWrapper.children[1]
  ELSE [convertedWrapper EXCEPT !.name = <<"root">>]

\* the smart unwrapping of parseXML
UnwrapsTo(convertedWrapper) ==
  IF /\ Len(convertedWrapper.children) = 1
     /\ ~Truthy(convertedWrapper.content)
     /\ Len(convertedWrapper.attributes) = 0
  THEN convertedWrapper.children[1]
  ELSE [convertedWrapper EXCEPT !.name = <<"root">>]

\* ErrorNode with documentElement.querySelector, which looks below the
\* document element only
ErrorNode_belowRootOnly(doc) ==
  QuerySelectorAll(doc.documentElement.childNodes, <<"parsererror">>)

\* the parsererror check of parseXML
ErrorNode(doc) == QuerySelector(doc.documentElement, <<"parsererror">>)

\* IsBlank without the trim
IsBlank_emptyOnly(xmlString) == xmlString = <<>>

\* the early return of parseXML
IsBlank(xmlString) == xmlString = <<>> \/ Trim(xmlString) = <<>>

RECURSIVE Frames(_), DeepestFrames(_)
\* the most frames any of the child elements needs
DeepestFrames(childNodes) ==
  IF childNodes = <<>> THEN 0
  ELSE With(IF childNodes[1].nodeType = "ELEMENT_NODE"
            THEN Frames(childNodes[1]) ELSE 0,
            LAMBDA first :
              With(DeepestFrames(Drop(childNodes, 1)), LAMBDA others :
                IF first > others THEN first ELSE others))

\* the frames of convertNode on the call stack while it converts domNode: one
\* for the element and those of the deepest of its child elements
Frames(domNode) == 1 + DeepestFrames(domNode.childNodes)

\* the call stack parseXML runs on: the number of frames of convertNode it
\* has room for, if that is limited
UnlimitedStack == [limited |-> FALSE, frames |-> 0]
LimitedStack(n) == [limited |-> TRUE, frames |-> n]

\* e.message of the RangeError of a call that exceeds the stack
StackOverflowMessage == <<"Maximum call stack size exceeded">>

\* the exception convertNode(domNode) raises on the stack; Null if none
RaisedBy(domNode, stack) ==
  IF stack.limited /\ Frames(domNode) > stack.frames
  THEN StackOverflowMessage ELSE Null

\* the body of the try without the catch: the exception reaches the caller
TryConvert_uncaught(doc, stack) ==
  IF RaisedBy(doc.documentElement, stack) # Null
  THEN [root |-> NullNode, error |-> Null,
        thrown |-> RaisedBy(doc.documentElement, stack)]
  ELSE ParseResult(UnwrapsTo(convertNode(doc.documentElement)), Null)

\* try { convertNode, unwrap } catch (e) { "Parsing error: " + e.message }
TryConvert(doc, stack) ==
  IF RaisedBy(doc.documentElement, stack) # Null
  THEN ParseResult(NullNode,
                   <<"Parsing error: ">>
                     \o RaisedBy(doc.documentElement, stack))
  ELSE ParseResult(UnwrapsTo(convertNode(doc.documentElement)), Null)

\* parseXML(xmlString) run on a call stack
parseXMLOn(xmlString, stack) ==
  IF IsBlank(xmlString) THEN ParseResult(NullNode, Null)
  ELSE With(ParseFromString(WrappedXml(SanitizedXml(xmlString))), LAMBDA doc :
         With(ErrorNode(doc), LAMBDA errorNode :
           IF errorNode # NullNode
           THEN ParseResult(NullNode,
                            <<"Invalid XML: ">> \o TextContent(errorNode))
           ELSE TryConvert(doc, stack)))

\* the exception raised inside the try of parseXML(xmlString); Null if none
RaisedIn(xmlString, stack) ==
  IF IsBlank(xmlString) THEN Null
  ELSE With(ParseFromString(WrappedXml(SanitizedXml(xmlString))), LAMBDA doc :
         IF ErrorNode(doc) # NullNode THEN Null
         ELSE RaisedBy(doc.documentElement, stack))

\* parseXML on a stack with room for every conversion
parseXML(xmlString) == parseXMLOn(xmlString, UnlimitedStack)

RECURSIVE ReplaceAll(_, _, _)
\* str.replace(/c/g, rep)
ReplaceAll(str, c, rep) ==
  IF str = <<>> THEN <<>>
  ELSE (IF str[1] = c THEN rep ELSE <<str[1]>>) \o ReplaceAll(Drop(str, 1), c, rep)

\* escapeXML that replaces & last
escapeXML_ampersandLast(str) ==
  ReplaceAll(
    ReplaceAll(
      ReplaceAll(
        ReplaceAll(
          ReplaceAll(str, "<", <<"&", "lt", ";">>),
          ">", <<"&", "gt", ";">>),
        "\"", <<"&", "quot", ";">>),
      "'", <<"&", "apos", ";">>),
    "&", <<"&", "amp", ";">>)

escapeXML(str) ==
  ReplaceAll(
    ReplaceAll(
      ReplaceAll(
        ReplaceAll(
          ReplaceAll(str, "&", <<"&", "amp", ";">>),
          "<", <<"&", "lt", ";">>),
        ">", <<"&", "gt", ";">>),
      "\"", <<"&", "quot", ";">>),
    "'", <<"&", "apos", ";">>)

CRLF == <<"\r", "\n">>

RECURSIVE AttributesXml(_)
\* the attributes of the opening tag:  name="escaped value"
AttributesXml(attributes) ==
  IF attributes = <<>> THEN <<>>
  ELSE <<" ">> \o attributes[1].name \o <<"=", "\"">>
       \o escapeXML(attributes[1].value) \o <<"\"">>
       \o AttributesXml(Drop(attributes, 1))

RECURSIVE serializeXML(_, _), ChildrenXml(_, _)
\* ChildrenXml that writes each child at the level of its parent
ChildrenXml_parentLevel(children, level) ==
  IF children = <<>> THEN <<>>
  ELSE serializeXML(children[1], level - 1) \o CRLF
       \o ChildrenXml(Drop(children, 1), level)

\* ChildrenXml that writes the first child twice
ChildrenXml_firstTwice(children, level) ==
  IF children = <<>> THEN <<>>
  ELSE serializeXML(children[1], level) \o CRLF
       \o serializeXML(children[1], level) \o CRLF
       \o ChildrenXml(Drop(children, 1), level)

\* the forEach of serializeXML: each child at the given level, then CRLF
ChildrenXml(children, level) ==
  IF children = <<>> THEN <<>>
  ELSE serializeXML(children[1], level) \o CRLF
       \o ChildrenXml(Drop(children, 1), level)

\* serializeXML with hasContent = node.content !== null
serializeXML_contentNotNull(n, level) ==
  With(Repeat(<<" ", " ">>, level), LAMBDA indent :
    indent \o <<"<">> \o n.name \o AttributesXml(n.attributes)
    \o (IF ~(Len(n.children) > 0) /\ ~(n.content # Null)
        THEN <<"/", ">">>
        ELSE <<">">>
             \o (IF n.content # Null THEN escapeXML(n.content) ELSE <<>>)
             \o (IF Len(n.children) > 0
                 THEN CRLF \o ChildrenXml(n.children, level + 1) \o indent
                 ELSE <<>>)
             \o <<"<", "/">> \o n.name \o <<">">>))

serializeXML(n, level) ==
  With(Repeat(<<" ", " ">>, level), LAMBDA indent :
    indent \o <<"<">> \o n.name \o AttributesXml(n.attributes)
    \o (IF ~(Len(n.children) > 0) /\ ~(n.content # Null /\ Len(n.content) > 0)
        THEN <<"/", ">">>
        ELSE <<">">>
             \o (IF n.content # Null /\ Len(n.content) > 0
                 THEN escapeXML(n.content) ELSE <<>>)
             \o (IF Len(n.children) > 0
                 THEN CRLF \o ChildrenXml(n.children, level + 1) \o indent
                 ELSE <<>>)
             \o <<"<", "/">> \o n.name \o <<">">>))

\* reading node.name of null throws
TypeError == <<"<TypeError>">>

\* prettifyXML testing error alone: serializeXML(null) throws
prettifyXML_errorOnly(xml) ==
  With(parseXML(xml), LAMBDA r :
    IF Truthy(r.error) THEN xml
    ELSE IF r.root = NullNode THEN TypeError
    ELSE With(DeclarationMatch(xml), LAMBDA declarationMatch :
           (IF declarationMatch # 0
            THEN SubSeq(xml, 1, declarationMatch) \o CRLF ELSE <<>>)
           \o serializeXML(r.root, 0)))

prettifyXML(xml) ==
  With(parseXML(xml), LAMBDA r :
    IF Truthy(r.error) \/ r.root = NullNode THEN xml
    ELSE With(DeclarationMatch(xml), LAMBDA declarationMatch :
           (IF declarationMatch # 0
            THEN SubSeq(xml, 1, declarationMatch) \o CRLF ELSE <<>>)
           \o serializeXML(r.root, 0)))

(***************************************************************************)
(* The texts and trees the functions are applied to                        *)
(***************************************************************************)
\* a text is at most this many pieces long
MaxPieces == 3
\* a tree of Trees has at most this many children
MaxChildren == 1

XmlDeclaration ==
  <<"<", "?", "xml", " ", "version", "=", "\"", "1.0", "\"", "?", ">">>

Piece ==
  { <<"<", "a", ">">>,
    <<"<", "/", "a", ">">>,
    <<"<", "b", " ", "k", "=", "\"", "&", "lt", ";", "'", "\"", "/", ">">>,
    <<"<", "b", " ", "k", "=", "'", "&", "#", "9", ";", "'", "/", ">">>,
    <<"x">>,
    <<" ">>,
    <<"&", "amp", ";", "&", "lt", ";", ">", "\"", "'">>,
    <<"<", "parsererror", "/", ">">>,
    XmlDeclaration,
    <<"<", "?", "xml", "s", "?", ">">> }

RECURSIVE Texts(_)
\* the concatenations of at most n pieces
Texts(n) ==
  IF n = 0 THEN {<<>>}
  ELSE LET shorter == Texts(n - 1)
       IN  shorter \cup {t \o p : t \in shorter, p \in Piece}

\* <x><y>1</y></x>
ExampleDocument ==
  <<"<", "x", ">", "<", "y", ">", "1", "<", "/", "y", ">", "<", "/", "x", ">">>
\* <a/><b/>
ExampleFragment == <<"<", "a", "/", ">", "<", "b", "/", ">">>
\* not xml at all
ExampleNotXml == <<"not", " ", "xml", " ", "at", " ", "all">>

\* <!DOCTYPE x [<!--y-->]>: a DOCTYPE with an internal subset
DoctypeWithSubset ==
  <<"<", "!", "DOCTYPE", " ", "x", " ", "[", "<", "!", "-", "-", "y", "-", "-",
    ">", "]", ">">>

\* a document with XML declaration, DOCTYPE with internal subset and root a
ExampleInternalSubset ==
  XmlDeclaration \o DoctypeWithSubset \o <<"<", "a", "/", ">">>

\* an element whose text runs over two lines
ExampleTwoLines ==
  <<"<", "a", ">", "x", "\n", "y", "<", "b", "/", ">", "<", "/", "a", ">">>

Examples ==
  { ExampleDocument, ExampleFragment, ExampleNotXml,
    <<"\n">>,
    <<"<", "?", "xml", "?", ">", "<", "a", "/", ">">>,
    XmlDeclaration \o <<"\n", "<", "!", "DOCTYPE", " ", "x", ">", "\n">>
      \o ExampleDocument,
    <<"<", "a", ">", "x", "<", "b", "/", ">", "<", "!", "-", "-", "y", "-", "-",
      ">", "<", "!", "[", "CDATA", "[", "<", "y", "]", "]", ">", "<", "/", "a",
      ">">>,
    ExampleTwoLines, ExampleInternalSubset }

Inputs == Texts(MaxPieces) \cup Examples

Value ==
  { <<"&", "lt", ";">>, <<"<", ">">>, <<"\"", "'">>, <<"x", " ", "&">>,
    <<"&", "\t", "<">> }

AttributeList ==
  {<<>>} \cup {<<[name |-> <<"k">>, value |-> v]>> : v \in Value}

Leaf ==
  { XMLNode(n, a, <<>>, c) :
      n \in {<<"a">>, <<"parsererror">>}, a \in AttributeList,
      c \in {Null} \cup Value }

RECURSIVE Leaves(_)
\* the sequences of at most n leaves
Leaves(n) ==
  IF n = 0 THEN {<<>>}
  ELSE LET shorter == Leaves(n - 1)
       IN  shorter \cup {Append(l, c) : l \in shorter, c \in Leaf}

Trees ==
  Leaf \cup { XMLNode(<<"b">>, a, ch, c) :
                a \in {<<>>, <<[name |-> <<"k">>, value |-> <<"<", ">">>]>>},
                ch \in Leaves(MaxChildren) \ {<<>>},
                c \in {Null, <<"x", " ", "&">>} }

(***************************************************************************)
(* The state machine: the exported functions applied to a text, and        *)
(* serializeXML applied to a tree and its output parsed again              *)
(***************************************************************************)
\* <n a="1" b="2">text</n>
ExampleElement ==
  XMLNode(<<"n">>,
          <<[name |-> <<"a">>, value |-> <<"1">>],
            [name |-> <<"b">>, value |-> <<"2">>]>>,
          <<>>, <<"t", "e", "x", "t">>)

\* <list><item/><item/><item/></list>
ExampleList ==
  XMLNode(<<"list">>, <<>>,
          [i \in 1..3 |-> XMLNode(<<"item">>, <<>>, <<>>, Null)], Null)

\* elements two levels down, content next to children
ExampleNested ==
  XMLNode(<<"x">>, <<>>,
          <<XMLNode(<<"y">>, <<[name |-> <<"k">>, value |-> <<"<", ">">>]>>,
                    <<XMLNode(<<"a">>, <<>>, <<>>, <<"1">>),
                      XMLNode(<<"b">>, <<>>, <<>>, Null)>>,
                    <<"x", " ", "&">>),
            XMLNode(<<"y">>, <<>>, <<>>, Null)>>,
          Null)

ExampleTrees ==
  { ExampleElement,
    [ExampleElement EXCEPT !.content = Null],
    [ExampleElement EXCEPT !.content = <<>>],
    ExampleList, ExampleNested }

\* the levels serializeXML is called with; 0 is the default
Levels == {0, 1, 2}

\* a string handed to escapeXML is at most this long
MaxStr == 3

\* a limited call stack has room for this many frames of convertNode
MaxFrames == 2

CallStacks == {UnlimitedStack, LimitedStack(MaxFrames)}

StrUnit == {"&", "<", ">", "\"", "'", "x", "amp", ";"}

RECURSIVE StringsUpTo(_)
StringsUpTo(n) ==
  IF n = 0 THEN {<<>>}
  ELSE LET shorter == StringsUpTo(n - 1)
       IN  shorter \cup {Append(t, c) : t \in shorter, c \in StrUnit}

Strings == StringsUpTo(MaxStr)

\* Math.random().toString(36).substr(2, 9): every call returns one of the
\* strings the generator can return, whatever it returned before
GeneratedIds == {"4fzzzxjyl", "i"}

RECURSIVE TreeSize(_), ForestSize(_)
\* the number of Nodes of a tree, each of them given an id at utils.ts:56
ForestSize(children) ==
  IF children = <<>> THEN 0
  ELSE TreeSize(children[1]) + ForestSize(Drop(children, 1))

TreeSize(n) == IF n = NullNode THEN 0 ELSE 1 + ForestSize(n.children)

\* the ways generateId can hand out n ids: how many Nodes get each id
Draws(n) ==
  {[i \in GeneratedIds |-> IF i = "i" THEN k ELSE n - k] : k \in 0..n}

\* ids after the Nodes of root were given theirs
generateIds(root) ==
  \E draw \in Draws(TreeSize(root)) :
    ids' = [i \in GeneratedIds |-> ids[i] + draw[i]]

\* no call made yet
NoResults ==
  /\ parsed = ParseResult(NullNode, Null)
  /\ pretty = Null
  /\ prettyAgain = Null
  /\ serialized = Null
  /\ reparsed = ParseResult(NullNode, Null)
  /\ escaped = Null
  /\ raised = Null
  /\ ids = [i \in GeneratedIds |-> 0]

\* no root handed to the grid
NoGrid ==
  /\ inputXml = <<>>
  /\ error = Null
  /\ reading = {}
  /\ parsedData = NullNode
  /\ viewAction = [type |-> "null", path |-> <<>>]
  /\ mounted = [id \in {} |-> FALSE]
  /\ pending = {}
  /\ actionPending = FALSE
  /\ crashed = FALSE

Init ==
  /\ \/ /\ xmlInput \in Inputs /\ node = NullNode /\ atLevel = 0
        /\ strInput = Null /\ pc = "input"
     \/ /\ xmlInput = Null /\ node \in Trees /\ atLevel = 0
        /\ strInput = Null /\ pc = "tree"
     \/ /\ xmlInput = Null /\ node \in ExampleTrees /\ atLevel \in Levels
        /\ strInput = Null /\ pc = "tree"
     \/ /\ xmlInput = Null /\ node = NullNode /\ atLevel = 0
        /\ strInput \in Strings /\ pc = "string"
  /\ NoResults
  /\ NoGrid

\* parseXML(xmlInput), on some call stack; the calls that follow are made
\* where the stack had room for the conversion
Parse ==
  /\ pc = "input"
  /\ \E stack \in CallStacks :
       /\ parsed' = parseXMLOn(xmlInput, stack)
       /\ raised' = RaisedIn(xmlInput, stack)
  /\ node' = parsed'.root
  /\ generateIds(parsed'.root)
  /\ pc' = IF raised' = Null THEN "parsed" ELSE "caught"
  /\ UNCHANGED gridVars
  /\ UNCHANGED <<xmlInput, atLevel, pretty, prettyAgain, serialized, reparsed, strInput,
                 escaped>>

\* prettifyXML(xmlInput)
Prettify ==
  /\ pc = "parsed"
  /\ pretty' = prettifyXML(xmlInput)
  /\ pc' = "prettified"
  /\ UNCHANGED gridVars
  /\ UNCHANGED <<xmlInput, node, atLevel, parsed, serialized, reparsed,
                 strInput, escaped, raised, prettyAgain, ids>>

\* serializeXML(node, atLevel)
Serialize ==
  /\ pc \in {"parsed", "tree"}
  /\ serialized' = IF node = NullNode THEN TypeError
                   ELSE serializeXML(node, atLevel)
  /\ pc' = "serialized"
  /\ UNCHANGED gridVars
  /\ UNCHANGED <<xmlInput, node, atLevel, parsed, pretty, reparsed, strInput, escaped,
                 raised, ids, prettyAgain>>

\* parseXML(serializeXML(node)), for the root parsed from a text and for the
\* trees of Trees
Reparse ==
  /\ pc = "serialized"
  /\ serialized # TypeError
  /\ xmlInput # Null \/ node \in Trees
  /\ reparsed' = parseXML(serialized)
  /\ generateIds(reparsed'.root)
  /\ pc' = "reparsed"
  /\ UNCHANGED gridVars
  /\ UNCHANGED <<xmlInput, node, atLevel, parsed, pretty, serialized, strInput, escaped,
                 raised, prettyAgain>>

\* escapeXML(strInput)
Escape ==
  /\ pc = "string"
  /\ escaped' = escapeXML(strInput)
  /\ pc' = "escaped"
  /\ UNCHANGED gridVars
  /\ UNCHANGED <<xmlInput, node, atLevel, parsed, pretty, serialized, reparsed,
                 strInput, raised, ids, prettyAgain>>

\* prettifyXML(pretty): the Prettify button pressed again on its own output
PrettifyAgain ==
  /\ pc = "prettified"
  /\ prettyAgain' = prettifyXML(pretty)
  /\ pc' = "prettifiedAgain"
  /\ UNCHANGED gridVars
  /\ UNCHANGED <<xmlInput, node, atLevel, parsed, pretty, serialized, reparsed,
                 strInput, escaped, raised, ids>>

Next == Parse \/ Prettify \/ PrettifyAgain \/ Serialize \/ Reparse \/ Escape

Spec == Init /\ [][Next]_vars


(***************************************************************************)
(* The grid of src/unnamed/part_001: GridNode and NodeTable components,    *)
(* their addresses, their expanded state and the view actions              *)
(***************************************************************************)
\* `${n}` of a positive number
RECURSIVE Decimal(_)
Decimal(k) ==
  IF k < 10 THEN <<<<"0", "1", "2", "3", "4", "5", "6", "7", "8", "9">>[k + 1]>>
  ELSE Decimal(k \div 10) \o Decimal(k % 10)

RECURSIVE NodeAt(_, _)
\* the node at a position: the indices of the children to go through
NodeAt(tree, pos) ==
  IF pos = <<>> THEN tree ELSE NodeAt(tree.children[pos[1]], Drop(pos, 1))

\* the property names every object inherits from Object.prototype
ObjectPrototype ==
  { <<"constructor">>, <<"toString">>, <<"valueOf">>, <<"hasOwnProperty">>,
    <<"isPrototypeOf">>, <<"propertyIsEnumerable">>, <<"toLocaleString">>,
    <<"__proto__">> }

\* the index of the group with this key; 0 if groups has no such own key
RECURSIVE OwnKey(_, _, _)
OwnKey(groups, tagName, i) ==
  IF i > Len(groups) THEN 0
  ELSE IF groups[i].tagName = tagName THEN i
  ELSE OwnKey(groups, tagName, i + 1)

RECURSIVE GroupFrom(_, _, _)
\* the forEach of groupedChildren over the children from the i-th on.
\* groups[name] of a name that is no own key is the inherited property when
\* Object.prototype has one: it is truthy, so no array is stored, and its
\* push is undefined: calling it throws a TypeError.
GroupFrom(children, i, groups) ==
  IF i > Len(children) THEN [threw |-> FALSE, groups |-> groups]
  ELSE With(OwnKey(groups, children[i].name, 1), LAMBDA g :
         IF g # 0
         THEN GroupFrom(children, i + 1,
                        [groups EXCEPT ![g].members = Append(@, i)])
         ELSE IF children[i].name \in ObjectPrototype
         THEN [threw |-> TRUE, groups |-> <<>>]
         ELSE GroupFrom(children, i + 1,
                        Append(groups, [tagName |-> children[i].name,
                                        members |-> <<i>>])))

\* groupedChildren of GridNode: the groups in the order of Object.keys, each
\* with the indices of its children
groupedChildren(n) == GroupFrom(n.children, 1, <<>>)

\* the order of the code units of names
CodeUnits ==
  <<"-", "1", "2", "9", "__root__", "a", "b", "book", "bookstore", "category",
    "constructor", "item", "k",
    "list", "n", "parsererror", "root", "s", "title", "x", "y">>

RECURSIVE UnitRank(_, _)
UnitRank(c, i) ==
  IF i > Len(CodeUnits) \/ CodeUnits[i] = c THEN i ELSE UnitRank(c, i + 1)

RECURSIVE Before(_, _)
\* string comparison of Array.prototype.sort(): by code units, a prefix first
Before(s, t) ==
  IF s = <<>> THEN t # <<>>
  ELSE IF t = <<>> THEN FALSE
  ELSE IF s[1] = t[1] THEN Before(Drop(s, 1), Drop(t, 1))
  ELSE UnitRank(s[1], 1) < UnitRank(t[1], 1)

RECURSIVE Sorted_descending(_)
\* the names in descending order
Sorted_descending(names) ==
  IF names = {} THEN <<>>
  ELSE With(CHOOSE m \in names : \A o \in names \ {m} : Before(o, m),
            LAMBDA m : <<m>> \o Sorted_descending(names \ {m}))

RECURSIVE Sorted(_)
\* Array.from(set).sort()
Sorted(names) ==
  IF names = {} THEN <<>>
  ELSE With(CHOOSE m \in names : \A o \in names \ {m} : Before(m, o),
            LAMBDA m : <<m>> \o Sorted(names \ {m}))

Range(f) == {f[i] : i \in DOMAIN f}

\* columns of NodeTable; members are the nodes of the table
columns(members) ==
  [attributes |->
     Sorted(UNION {{a.name : a \in Range(m.attributes)} : m \in Range(members)}),
   children |->
     Sorted(UNION {{c.name : c \in Range(m.children)} : m \in Range(members)})]

\* the header cells of a table: columns.attributes.map(...) and then
\* columns.children.map(...)
headerRow(cols) ==
  [i \in 1..Len(cols.attributes) |->
     [kind |-> "attribute", name |-> cols.attributes[i]]]
  \o [i \in 1..Len(cols.children) |->
       [kind |-> "child", name |-> cols.children[i]]]

\* a component of the grid is known by its kind, the position of its node
\* (of the parent of its nodes, for a table) and the tag name of a table
GridNodeId(pos) == [kind |-> "GridNode", pos |-> pos, tagName |-> <<>>]
NodeTableId(pos, tagName) ==
  [kind |-> "NodeTable", pos |-> pos, tagName |-> tagName]
\* what the root GridNode is mounted in
NoComponent == [kind |-> "none", pos |-> <<>>, tagName |-> <<>>]

\* const currentPath = path || `/${node.name}`
currentPath(path, n) == IF Truthy(path) THEN path ELSE <<"/">> \o n.name
\* const tablePath = `${parentPath}/${tagName}`
tablePath(parentPath, tagName) == parentPath \o <<"/">> \o tagName
\* rows numbered from 0
rowPath_zeroBased(parentPath, tagName, nodeIndex) ==
  parentPath \o <<"/">> \o tagName \o <<"[">> \o Decimal(nodeIndex)
    \o <<"]">>

\* const rowPath = `${parentPath}/${tagName}[${nodeIndex + 1}]`; nodeIndex
\* counts from 0
rowPath(parentPath, tagName, nodeIndex) ==
  parentPath \o <<"/">> \o tagName \o <<"[">> \o Decimal(nodeIndex + 1)
    \o <<"]">>
\* an attribute addressed like a child
attrPath_noAt(elementPath, attrKey) == elementPath \o <<"/">> \o attrKey

\* const attrPath = `${rowPath}/@${attrKey}`, `${currentPath}/@${attr.name}`
attrPath(elementPath, attrKey) == elementPath \o <<"/", "@">> \o attrKey
\* const childPath of a table cell; matchIdx counts from 0
childPath(row, childKey, matches, matchIdx) ==
  IF Len(matches) > 1
  THEN row \o <<"/">> \o childKey \o <<"[">> \o Decimal(matchIdx + 1) \o <<"]">>
  ELSE row \o <<"/">> \o childKey
\* path={`${currentPath}/${tagName}`} of the only member of a group
memberPath(parentPath, tagName) == parentPath \o <<"/">> \o tagName

\* const isLeaf of a table cell
isLeaf(match) ==
  /\ Len(match.children) = 0
  /\ Len(match.attributes) = 0
  /\ match.content # Null

\* node.children.filter(c => c.name === childKey): the indices of the matches
RECURSIVE Matches(_, _, _)
Matches(children, childKey, i) ==
  IF i > Len(children) THEN <<>>
  ELSE IF children[i].name = childKey
  THEN <<i>> \o Matches(children, childKey, i + 1)
  ELSE Matches(children, childKey, i + 1)

\* one thing the grid shows: a component (GridNode, NodeTable), or inside a
\* component a table row, a leaf cell, an attribute value or a content box,
\* with the address it is given
View(kind, pos, tagName, path, depth, parent) ==
  [kind |-> kind, pos |-> pos, tagName |-> tagName, path |-> path,
   depth |-> depth, parent |-> parent]

RECURSIVE RenderGridNode(_, _, _, _, _), RenderNodeTable(_, _, _, _, _),
          RenderRow(_, _, _, _, _, _)
\* everything <GridNode node depth path/> shows, all of it expanded; pos is
\* the position of node in tree
RenderGridNode(tree, pos, path, depth, parent) ==
  With(currentPath(path, NodeAt(tree, pos)), LAMBDA cur :
    {View("GridNode", pos, <<>>, cur, depth, parent)}
    \cup {View("attribute", pos, a.name, attrPath(cur, a.name), depth,
               GridNodeId(pos)) : a \in Range(NodeAt(tree, pos).attributes)}
    \cup (IF Truthy(NodeAt(tree, pos).content)
          THEN {View("content", pos, <<>>, cur, depth, GridNodeId(pos))}
          ELSE {})
    \cup UNION
           { IF Len(g.members) > 1
             THEN RenderNodeTable(tree, pos, g, cur, depth + 1)
             ELSE RenderGridNode(tree, Append(pos, g.members[1]),
                                 memberPath(cur, g.tagName), depth + 1,
                                 GridNodeId(pos)) :
             g \in Range(groupedChildren(NodeAt(tree, pos)).groups) })

\* everything <NodeTable nodes tagName parentPath depth/> shows; the nodes
\* are the children g.members of the node at pos
RenderNodeTable(tree, pos, g, parentPath, depth) ==
  {View("NodeTable", pos, g.tagName, tablePath(parentPath, g.tagName), depth,
        GridNodeId(pos))}
  \cup UNION { RenderRow(tree, Append(pos, g.members[r]),
                         rowPath(parentPath, g.tagName, r - 1),
                         columns([k \in 1..Len(g.members) |->
                                    NodeAt(tree, pos).children[g.members[k]]]),
                         depth, NodeTableId(pos, g.tagName)) :
               r \in 1..Len(g.members) }

\* one row of a table: the node at pos
RenderRow(tree, pos, row, cols, depth, table) ==
  {View("row", pos, <<>>, row, depth, table)}
  \cup {View("attribute", pos, a.name, attrPath(row, a.name), depth, table) :
          a \in {b \in Range(NodeAt(tree, pos).attributes) :
                   b.name \in Range(cols.attributes)}}
  \cup UNION
         { With(Matches(NodeAt(tree, pos).children, childKey, 1),
             LAMBDA matches :
               UNION
                 { IF isLeaf(NodeAt(tree, pos).children[matches[m]])
                   THEN {View("leaf", Append(pos, matches[m]), <<>>,
                              childPath(row, childKey, matches, m - 1),
                              depth, table)}
                   ELSE RenderGridNode(tree, Append(pos, matches[m]),
                                       childPath(row, childKey, matches, m - 1),
                                       0, table) :
                   m \in 1..Len(matches) }) :
           childKey \in Range(cols.children) }

\* <GridNode node={parsedData} depth={0} />
RenderRoot(tree) == RenderGridNode(tree, <<>>, Null, 0, NoComponent)

\* ViewAction | null; the id: Date.now() of an action only makes every
\* dispatched action a new object
NoAction == [type |-> "null", path |-> <<>>]
ViewAction(type, path) == [type |-> type, path |-> path]

\* the initializer of useState of isExpanded, in GridNode and in NodeTable
InitialExpanded(depth, va) ==
  IF va.type = "COLLAPSE_ALL" THEN FALSE
  ELSE IF va.type = "EXPAND_ALL" THEN TRUE
  ELSE depth < 1

\* EXPAND_PATH matched by whole addresses only
ViewActionEffect_exactPath(st, va) ==
  IF va.type = "EXPAND_ALL"
  THEN [st EXCEPT !.isExpanded = TRUE, !.isRecursivelyExpanded = TRUE]
  ELSE IF va.type = "COLLAPSE_ALL"
  THEN [st EXCEPT !.isExpanded = FALSE, !.isRecursivelyExpanded = FALSE]
  ELSE IF va.type = "EXPAND_PATH"
  THEN IF st.path = va.path
       THEN [st EXCEPT !.isExpanded = TRUE, !.isRecursivelyExpanded = TRUE]
       ELSE st
  ELSE IF va.type = "COLLAPSE_PATH"
  THEN [st EXCEPT !.isExpanded =
                    IF StartsWith(st.path, va.path, 1) /\ st.path # va.path
                    THEN FALSE ELSE @,
                  !.isRecursivelyExpanded =
                    IF StartsWith(st.path, va.path, 1) THEN FALSE ELSE @]
  ELSE st

\* COLLAPSE_PATH collapsing the component at the target address as well
ViewActionEffect_collapseTarget(st, va) ==
  IF va.type = "EXPAND_ALL"
  THEN [st EXCEPT !.isExpanded = TRUE, !.isRecursivelyExpanded = TRUE]
  ELSE IF va.type = "COLLAPSE_ALL"
  THEN [st EXCEPT !.isExpanded = FALSE, !.isRecursivelyExpanded = FALSE]
  ELSE IF va.type = "EXPAND_PATH"
  THEN IF StartsWith(st.path, va.path, 1)
       THEN [st EXCEPT !.isExpanded = TRUE,
                       !.isRecursivelyExpanded =
                         IF st.path = va.path THEN TRUE ELSE @]
       ELSE st
  ELSE IF va.type = "COLLAPSE_PATH"
  THEN [st EXCEPT !.isExpanded =
                    IF StartsWith(st.path, va.path, 1) THEN FALSE ELSE @,
                  !.isRecursivelyExpanded =
                    IF StartsWith(st.path, va.path, 1) THEN FALSE ELSE @]
  ELSE st

\* the useEffect on [viewAction, path] of GridNode and of NodeTable, applied
\* to the state st of a component
ViewActionEffect(st, va) ==
  IF va.type = "EXPAND_ALL"
  THEN [st EXCEPT !.isExpanded = TRUE, !.isRecursivelyExpanded = TRUE]
  ELSE IF va.type = "COLLAPSE_ALL"
  THEN [st EXCEPT !.isExpanded = FALSE, !.isRecursivelyExpanded = FALSE]
  ELSE IF va.type = "EXPAND_PATH"
  THEN IF StartsWith(st.path, va.path, 1)
       THEN [st EXCEPT !.isExpanded = TRUE,
                       !.isRecursivelyExpanded =
                         IF st.path = va.path THEN TRUE ELSE @]
       ELSE st
  ELSE IF va.type = "COLLAPSE_PATH"
  THEN [st EXCEPT !.isExpanded =
                    IF StartsWith(st.path, va.path, 1) /\ st.path # va.path
                    THEN FALSE ELSE @,
                  !.isRecursivelyExpanded =
                    IF StartsWith(st.path, va.path, 1) THEN FALSE ELSE @]
  ELSE st

\* <list><item/><item/><item/></list>
GridList ==
  <<"<", "list", ">", "<", "item", "/", ">", "<", "item", "/", ">",
    "<", "item", "/", ">", "<", "/", "list", ">">>
\* <x><a><b/></a><ab><b/></ab></x>
GridPrefix ==
  <<"<", "x", ">", "<", "a", ">", "<", "b", "/", ">", "<", "/", "a", ">",
    "<", "a", "b", ">", "<", "b", "/", ">", "<", "/", "a", "b", ">",
    "<", "/", "x", ">">>
\* <x><y b="1"><b/></y><y k="1"><b><a/></b></y></x>
GridRows ==
  <<"<", "x", ">",
    "<", "y", " ", "b", "=", "\"", "1", "\"", ">", "<", "b", "/", ">",
    "<", "/", "y", ">",
    "<", "y", " ", "k", "=", "\"", "1", "\"", ">", "<", "b", ">",
    "<", "a", "/", ">", "<", "/", "b", ">", "<", "/", "y", ">",
    "<", "/", "x", ">">>
\* <x><y><a>1</a><a>1</a></y><y/></x>
GridCells ==
  <<"<", "x", ">", "<", "y", ">", "<", "a", ">", "1", "<", "/", "a", ">",
    "<", "a", ">", "1", "<", "/", "a", ">", "<", "/", "y", ">",
    "<", "y", "/", ">", "<", "/", "x", ">">>
\* <x><y><a><constructor/></a></y></x>
GridConstructor ==
  <<"<", "x", ">", "<", "y", ">", "<", "a", ">", "<", "constructor", "/", ">",
    "<", "/", "a", ">", "<", "/", "y", ">", "<", "/", "x", ">">>

\* SAMPLE_XML of utils.ts, cut down to the declaration and one book with its
\* category and title:
\* <?xml version="1.0"?><bookstore><book category="x"><title>1</title></book>
\* </bookstore>
SAMPLE_XML ==
  XmlDeclaration
  \o <<"<", "bookstore", ">", "<", "book", " ", "category", "=", "\"", "x",
       "\"", ">", "<", "title", ">", "1", "<", "/", "title", ">",
       "<", "/", "book", ">", "<", "/", "bookstore", ">">>

GridTexts ==
  {GridList, GridPrefix, GridRows, GridCells, GridConstructor, SAMPLE_XML}

\* the roots setParsedData is called with
GridTrees == {parseXML(t).root : t \in GridTexts}

GridViews == [tree \in GridTrees |-> RenderRoot(tree)]

IdOf(v) == [kind |-> v.kind, pos |-> v.pos, tagName |-> v.tagName]

\* the components the grid of a tree can mount
ComponentsOf(tree) ==
  {v \in GridViews[tree] : v.kind \in {"GridNode", "NodeTable"}}

ComponentAt(tree, id) == CHOOSE v \in ComponentsOf(tree) : IdOf(v) = id

\* the state of a component in a render: the state it has if it was mounted
\* before, its initial state if it is mounted by this render
StateOf(v, prev, va) ==
  IF IdOf(v) \in DOMAIN prev THEN [prev[IdOf(v)] EXCEPT !.path = v.path]
  ELSE [path |-> v.path,
        isExpanded |-> InitialExpanded(v.depth, va),
        isRecursivelyExpanded |-> FALSE]

RECURSIVE Shown(_, _, _, _)
\* a component is rendered when the body of its parent is: {isExpanded && ...}
Shown(tree, v, prev, va) ==
  \/ v.parent = NoComponent
  \/ /\ Shown(tree, ComponentAt(tree, v.parent), prev, va)
     /\ StateOf(ComponentAt(tree, v.parent), prev, va).isExpanded

NothingMounted == [id \in {} |-> FALSE]

\* one render of the grid, which App shows while parsedData is not null. An
\* exception thrown by a component while it renders is caught by nothing:
\* React unmounts the whole application.
Render(tree, prev, va) ==
  IF tree = NullNode THEN [crashed |-> FALSE, mounted |-> NothingMounted]
  ELSE
  With({v \in ComponentsOf(tree) : Shown(tree, v, prev, va)}, LAMBDA shown :
    IF \E v \in shown : /\ v.kind = "GridNode"
                        /\ groupedChildren(NodeAt(tree, v.pos)).threw
    THEN [crashed |-> TRUE, mounted |-> NothingMounted]
    ELSE [crashed |-> FALSE,
          mounted |-> [id \in {IdOf(v) : v \in shown} |->
                         StateOf(ComponentAt(tree, id), prev, va)]])

\* the state after a render of the states next under the action va; the
\* effects of ran are those to run after it, besides those of the components
\* the render mounts
Commit(next, va, ran, dispatched) ==
  /\ mounted' = Render(parsedData, next, va).mounted
  /\ crashed' = Render(parsedData, next, va).crashed
  /\ pending' = IF crashed' THEN {}
                ELSE (ran \cap DOMAIN mounted')
                       \cup (DOMAIN mounted' \ DOMAIN mounted)
  /\ actionPending' = (dispatched /\ ~crashed')

GridInit ==
  /\ inputXml = <<>>
  /\ error = Null
  /\ reading = {}
  /\ parsedData \in GridTrees
  /\ viewAction = NoAction
  /\ mounted = Render(parsedData, NothingMounted, NoAction).mounted
  /\ crashed = Render(parsedData, NothingMounted, NoAction).crashed
  /\ pending = DOMAIN mounted
  /\ actionPending = FALSE
  /\ xmlInput = Null /\ node = NullNode /\ atLevel = 0 /\ strInput = Null
  /\ pc = "grid"
  /\ NoResults

\* the effects of the last commit are run before the next event is handled
Idle == ~crashed /\ pending = {}

\* toggleExpand of the component id
ToggleExpand(id) ==
  /\ Idle
  /\ id \in DOMAIN mounted
  /\ Commit([mounted EXCEPT ![id].isExpanded = ~@], viewAction, {}, FALSE)
  /\ UNCHANGED <<parsedData, viewAction>>
  /\ UNCHANGED <<inputXml, error, reading>>

\* handleRecursiveToggle of the component id, with handleExpandPath and
\* handleCollapsePath of App; a GridNode has the button if it has children
handleRecursiveToggle(id) ==
  /\ Idle
  /\ id \in DOMAIN mounted
  /\ id.kind = "GridNode" => Len(NodeAt(parsedData, id.pos).children) > 0
  /\ viewAction' =
       IF mounted[id].isRecursivelyExpanded
       THEN ViewAction("COLLAPSE_PATH", mounted[id].path)
       ELSE ViewAction("EXPAND_PATH", mounted[id].path)
  /\ Commit(IF mounted[id].isRecursivelyExpanded
            THEN [mounted EXCEPT ![id].isRecursivelyExpanded = FALSE]
            ELSE [mounted EXCEPT ![id].isExpanded = TRUE,
                                 ![id].isRecursivelyExpanded = TRUE],
            viewAction', DOMAIN mounted, TRUE)
  /\ UNCHANGED parsedData
  /\ UNCHANGED <<inputXml, error, reading>>

\* handleExpandAll
handleExpandAll ==
  /\ Idle
  /\ viewAction' = ViewAction("EXPAND_ALL", <<>>)
  /\ Commit(mounted, viewAction', DOMAIN mounted, TRUE)
  /\ UNCHANGED parsedData
  /\ UNCHANGED <<inputXml, error, reading>>

\* handleCollapseAll
handleCollapseAll ==
  /\ Idle
  /\ viewAction' = ViewAction("COLLAPSE_ALL", <<>>)
  /\ Commit(mounted, viewAction', DOMAIN mounted, TRUE)
  /\ UNCHANGED parsedData
  /\ UNCHANGED <<inputXml, error, reading>>

\* the effects of the components of pending, and the render their state
\* changes cause
RunEffects ==
  /\ ~crashed
  /\ pending # {}
  /\ Commit([id \in DOMAIN mounted |->
               IF id \in pending THEN ViewActionEffect(mounted[id], viewAction)
               ELSE mounted[id]],
            viewAction, {}, FALSE)
  /\ UNCHANGED <<parsedData, viewAction>>
  /\ UNCHANGED <<inputXml, error, reading>>

GridUnchanged ==
  UNCHANGED <<xmlInput, node, atLevel, pc, parsed, pretty, serialized,
              reparsed, strInput, escaped, raised, ids, prettyAgain>>

Toggle == (\E id \in DOMAIN mounted : ToggleExpand(id)) /\ GridUnchanged
RecursiveToggle ==
  (\E id \in DOMAIN mounted : handleRecursiveToggle(id)) /\ GridUnchanged
ExpandAll == handleExpandAll /\ GridUnchanged
CollapseAll == handleCollapseAll /\ GridUnchanged
Effects == RunEffects /\ GridUnchanged

GridNext == Toggle \/ RecursiveToggle \/ ExpandAll \/ CollapseAll \/ Effects

GridSpec == GridInit /\ [][GridNext]_vars

\* React runs the effects a commit has scheduled
GridLiveSpec == GridSpec /\ WF_vars(Effects)

(***************************************************************************)
(* App: the input area, the parse of its text and the grid of the result   *)
(***************************************************************************)
\* <a>
NotXml == <<"<", "a", ">">>
Blank == <<" ">>

\* the texts typed, pasted and dropped
AppTexts == {GridList, SAMPLE_XML, NotXml, Blank}

\* the texts the input area comes to hold
InputTexts == AppTexts \cup {<<>>} \cup {prettifyXML(text) : text \in AppTexts}

\* parseXML and prettifyXML of each of them
Parsed == [text \in InputTexts |-> parseXML(text)]
Prettified == [text \in InputTexts |-> prettifyXML(text)]

\* a dropped file: whether its type or name is accepted, and its text
Files == [accepted : BOOLEAN, text : {GridList, NotXml, <<>>}]

\* the FileReaders that may be reading at one time
MaxReading == 1

DropErrorMessage == <<"Please drop a valid XML file.">>

\* the components that stay mounted when a tree replaces the one shown: the
\* root GridNode is rendered without a key, the tables of the root under the
\* key group-<tagName>; every other GridNode has the key node.id, which a
\* parse generates anew
Kept ==
  IF parsedData = NullNode THEN {} ELSE {id \in DOMAIN mounted : id.pos = <<>>}

\* the grid after setParsedData(root) and setViewAction(va)
ShowTree(root, va) ==
  /\ parsedData' = root
  /\ viewAction' = va
  /\ mounted' = Render(root, [id \in Kept |-> mounted[id]], va).mounted
  /\ crashed' = Render(root, [id \in Kept |-> mounted[id]], va).crashed
  /\ pending' = IF crashed' THEN {}
                ELSE {id \in DOMAIN mounted' :
                        \/ id \notin Kept
                        \/ va # viewAction
                        \/ mounted'[id].path # mounted[id].path}
  /\ actionPending' = FALSE

\* executeParse leaving the tree in place when the parse reports an error
executeParse_treeKept(xmlString) ==
  \E result \in {Parsed[xmlString]} :
    IF Truthy(result.error)
    THEN /\ error' = result.error
         /\ UNCHANGED <<parsedData, viewAction, mounted, pending,
                        actionPending, crashed>>
    ELSE /\ error' = Null
         /\ ShowTree(result.root, NoAction)

\* executeParse(xmlString)
executeParse(xmlString) ==
  \E result \in {Parsed[xmlString]} :
    /\ IF Truthy(result.error)
       THEN /\ error' = result.error
            /\ ShowTree(NullNode, viewAction)
       ELSE /\ error' = Null
            /\ ShowTree(result.root, NoAction)

\* processInput(content)
processInput(content) ==
  /\ inputXml' = content
  /\ executeParse(content)

\* handleInputChange, with e.target.value = text
handleInputChange(text) ==
  /\ Idle
  /\ text # inputXml
  /\ inputXml' = text
  /\ error' = IF Truthy(error) THEN Null ELSE error
  /\ UNCHANGED <<reading, parsedData, viewAction, mounted, pending,
                 actionPending, crashed>>

\* handleParseButton
handleParseButton ==
  /\ Idle
  /\ executeParse(inputXml)
  /\ UNCHANGED <<inputXml, reading>>

\* handlePaste, with the text pastedData on the clipboard
handlePaste(pastedData) ==
  /\ Idle
  /\ IF Truthy(pastedData) /\ Len(Trim(pastedData)) > 0
     THEN processInput(pastedData)
     ELSE UNCHANGED <<inputXml, error, parsedData, viewAction, mounted,
                      pending, actionPending, crashed>>
  /\ UNCHANGED reading

\* handleLoadSample
handleLoadSample ==
  /\ Idle
  /\ processInput(SAMPLE_XML)
  /\ UNCHANGED reading

\* handlePrettify; prettifyXML parses the text
handlePrettify ==
  /\ Idle
  /\ inputXml' = Prettified[inputXml]
  /\ UNCHANGED <<error, reading, parsedData, viewAction, mounted, pending,
                 actionPending, crashed>>

\* handleClear
handleClear ==
  /\ Idle
  /\ inputXml' = <<>>
  /\ error' = Null
  /\ ShowTree(NullNode, NoAction)
  /\ UNCHANGED reading

\* handleDrop of file: an accepted file is handed to a FileReader
handleDrop(file) ==
  /\ Idle
  /\ IF file.accepted
     THEN /\ Cardinality(reading) < MaxReading
          /\ reading' = reading \cup {file.text}
          /\ UNCHANGED error
     ELSE /\ error' = DropErrorMessage
          /\ UNCHANGED reading
  /\ UNCHANGED <<inputXml, parsedData, viewAction, mounted, pending,
                 actionPending, crashed>>

\* reader.onload of a file whose text is content
onload(content) ==
  /\ Idle
  /\ content \in reading
  /\ reading' = reading \ {content}
  /\ IF Truthy(content)
     THEN processInput(content)
     ELSE UNCHANGED <<inputXml, error, parsedData, viewAction, mounted,
                      pending, actionPending, crashed>>

\* the ids a parse generates reach the grid as the keys of Kept
AppUnchanged ==
  UNCHANGED <<xmlInput, node, atLevel, pc, parsed, pretty, serialized,
              reparsed, strInput, escaped, raised, ids, prettyAgain>>

\* App before any event
AppInit ==
  /\ inputXml = <<>>
  /\ error = Null
  /\ reading = {}
  /\ parsedData = NullNode
  /\ viewAction = NoAction
  /\ mounted = NothingMounted
  /\ pending = {}
  /\ actionPending = FALSE
  /\ crashed = FALSE
  /\ xmlInput = Null /\ node = NullNode /\ atLevel = 0 /\ strInput = Null
  /\ pc = "app"
  /\ NoResults

Edit ==
  (\E text \in AppTexts : handleInputChange(text)) /\ AppUnchanged
Submit == handleParseButton /\ AppUnchanged
Paste ==
  (\E pastedData \in AppTexts : handlePaste(pastedData)) /\ AppUnchanged
Sample == handleLoadSample /\ AppUnchanged
PrettifyInput == handlePrettify /\ AppUnchanged
Clear == handleClear /\ AppUnchanged
FileDrop == (\E file \in Files : handleDrop(file)) /\ AppUnchanged
FileLoaded == (\E content \in reading : onload(content)) /\ AppUnchanged

AppNext ==
  \/ Edit \/ Submit \/ Paste \/ Sample \/ PrettifyInput \/ Clear
  \/ FileDrop \/ FileLoaded
  \/ Toggle \/ RecursiveToggle \/ ExpandAll \/ CollapseAll \/ Effects

AppSpec == AppInit /\ [][AppNext]_vars


(***************************************************************************)
(* Properties                                                              *)
(***************************************************************************)
AllWhiteSpace(s) == \A i \in 1..Len(s) : s[i] \in WhiteSpace

\* parseXML(xmlInput) has returned
TextParsed == xmlInput # Null /\ pc # "input"

\* well-formed as a document, and as the content of an element
WellFormedDocument(text) == ParseDocument(text) # NullNode
WellFormedFragment(text) == ParseDocument(WrappedXml(text)) # NullNode

\* content with every white space unit read as a space
SpacesFor(s) == [i \in 1..Len(s) |-> IF s[i] \in WhiteSpace THEN " " ELSE s[i]]

RECURSIVE SameTree(_, _)
\* structural equality up to white space in content
SameTree(t, u) ==
  /\ t.name = u.name
  /\ t.attributes = u.attributes
  /\ SpacesFor(t.content) = SpacesFor(u.content)
  /\ Len(t.children) = Len(u.children)
  /\ \A i \in 1..Len(t.children) : SameTree(t.children[i], u.children[i])

RECURSIVE TreeValues(_), ChildrenValues(_)
\* the attribute values and the content of every node, in document order
ChildrenValues(children) ==
  IF children = <<>> THEN <<>>
  ELSE TreeValues(children[1]) \o ChildrenValues(Drop(children, 1))

TreeValues(t) ==
  [i \in 1..Len(t.attributes) |-> t.attributes[i].value] \o <<t.content>>
  \o ChildrenValues(t.children)

\* C1: for a well-formed document D, parseXML(serializeXML(parseXML(D).root))
\* succeeds and gives a tree structurally equal to parseXML(D).root, up to
\* white space in content.
C1_RoundTripStable ==
  (xmlInput # Null /\ pc \in {"serialized", "reparsed"}
     /\ WellFormedDocument(xmlInput)) =>
    /\ serialized # TypeError
    /\ pc = "reparsed" =>
         /\ reparsed.error = Null
         /\ reparsed.root # NullNode
         /\ SameTree(reparsed.root, parsed.root)

\* C2: for a tree T with & < > " ' in its attribute values and content,
\* serializeXML(T) parses again without error and the tree parsed carries
\* the attribute values and contents of T.
C2_EscapingRoundTrip ==
  (xmlInput = Null /\ node \in Trees /\ atLevel = 0 /\ pc = "reparsed") =>
    /\ reparsed.error = Null
    /\ reparsed.root # NullNode
    /\ TreeValues(reparsed.root) = TreeValues(node)

\* C3: parseXML never returns both a root and an error, and returns neither
\* only for an empty or all white space text.
C3_RootOrError ==
  /\ TextParsed =>
       /\ ~(parsed.root # NullNode /\ parsed.error # Null)
       /\ (parsed.root = NullNode /\ parsed.error = Null)
            => AllWhiteSpace(xmlInput)
  /\ pc = "reparsed" =>
       /\ ~(reparsed.root # NullNode /\ reparsed.error # Null)
       /\ (reparsed.root = NullNode /\ reparsed.error = Null)
            => AllWhiteSpace(serialized)

C3_Witness ==
  /\ pc = "parsed" /\ ~AllWhiteSpace(xmlInput)
  /\ parsed.root = NullNode /\ parsed.error # Null

\* C4: for an empty or all white space text parseXML returns neither a root
\* nor an error.
C4_BlankIsNothing ==
  (TextParsed /\ AllWhiteSpace(xmlInput)) =>
    parsed = ParseResult(NullNode, Null)

C4_Witness ==
  /\ pc = "parsed" /\ xmlInput # <<>> /\ AllWhiteSpace(xmlInput)
  /\ parsed = ParseResult(NullNode, Null)

\* "Invalid XML: " followed by a diagnostic that is not empty
IsInvalidXmlError(message) ==
  message # Null /\ Len(message) > 1 /\ message[1] = "Invalid XML: "

\* C5, as claimed: for a text that is well-formed neither as a document nor
\* as a fragment, parseXML returns no root and an error "Invalid XML: "
\* followed by a diagnostic that is not empty.
C5_MalformedIsError ==
  (TextParsed /\ ~WellFormedDocument(xmlInput)
     /\ ~WellFormedFragment(xmlInput)) =>
    parsed.root = NullNode /\ IsInvalidXmlError(parsed.error)

\* C5, amended: when the text that is left once the leading <?xml ...?> and
\* <!DOCTYPE ...> are removed is not well-formed as a fragment, parseXML
\* returns no root and the error "Invalid XML: " followed by the parser's
\* diagnostic, which is not empty.
C5_RejectedIsError ==
  (TextParsed /\ ~AllWhiteSpace(xmlInput)
     /\ ~WellFormedFragment(SanitizedXml(xmlInput))) =>
    /\ parsed.root = NullNode
    /\ IsInvalidXmlError(parsed.error)
    /\ parsed.error = <<"Invalid XML: ">> \o ParserErrorText

C5_Witness ==
  /\ pc = "parsed" /\ ~WellFormedFragment(SanitizedXml(xmlInput))
  /\ parsed.root = NullNode /\ IsInvalidXmlError(parsed.error)

\* C6: every well-formed document or fragment, whatever its element names,
\* gives a root and no error; an "Invalid XML: " error is reported only for
\* a text that is not well-formed.
C6_WellFormedIsParsed ==
  (TextParsed /\ ~AllWhiteSpace(xmlInput)
     /\ (WellFormedDocument(xmlInput) \/ WellFormedFragment(xmlInput))) =>
    parsed.root # NullNode /\ parsed.error = Null

\* the names of the nodes of a sequence
Names(nodes) == [i \in 1..Len(nodes) |-> nodes[i].name]

\* the wrapper element as convertNode returns it
ConvertedWrapper(text) ==
  convertNode(ParseDocument(WrappedXml(SanitizedXml(text))))

\* C7: parseXML returns the single child of the converted wrapper exactly
\* when the wrapper has one child, no content and no attributes, and
\* otherwise the wrapper renamed "root" with all top-level elements in
\* document order; <x><y>1</y></x> gives a root x, <a/><b/> a root "root"
\* with the children a and b.
C7_UnwrapRule ==
  (TextParsed /\ parsed.root # NullNode) =>
    LET w == ConvertedWrapper(xmlInput)
        single == /\ Len(w.children) = 1
                  /\ w.content = Null
                  /\ w.attributes = <<>>
    IN  /\ single => parsed.root = w.children[1]
        /\ ~single => /\ parsed.root.name = <<"root">>
                      /\ parsed.root.children = w.children
                      /\ parsed.root.content = w.content
                      /\ parsed.root.attributes = w.attributes
        /\ xmlInput = ExampleDocument => parsed.root.name = <<"x">>
        /\ xmlInput = ExampleFragment =>
             /\ parsed.root.name = <<"root">>
             /\ Names(parsed.root.children) = <<<<"a">>, <<"b">>>>

C7_Witness ==
  /\ pc = "parsed" /\ xmlInput = ExampleFragment
  /\ parsed.root # NullNode
  /\ parsed.root.name = <<"root">> /\ Len(parsed.root.children) = 2

\* C8: when parseXML reports an error or returns no root, prettifyXML
\* returns the text unchanged; prettifyXML never throws.
C8_FailOpen ==
  pc = "prettified" =>
    /\ pretty # TypeError
    /\ (parsed.error # Null \/ parsed.root = NullNode) => pretty = xmlInput

C8_Witness ==
  /\ pc = "prettified" /\ parsed.error # Null /\ parsed.root = NullNode
  /\ pretty = xmlInput

\* plain text: no markup and not blank
PlainText(text) ==
  /\ ~AllWhiteSpace(text)
  /\ \A i \in 1..Len(text) : text[i] \notin {"<", ">", "&"}

\* C9: for plain text with no markup, such as "not xml at all", prettifyXML
\* returns the text unchanged.
C9_PlainTextUnchanged ==
  (pc = "prettified" /\ PlainText(xmlInput)) => pretty = xmlInput

\* the length of an XML declaration that text begins with; 0 if it begins
\* with none
DeclarationLength(text) ==
  IF ParseXMLDecl(text) > 1 THEN ParseXMLDecl(text) - 1 ELSE 0

\* C10, as claimed: when the text begins with an XML declaration and is
\* parsed, the output is the declaration, CRLF, serializeXML(root); when the
\* text has no leading declaration, the output is serializeXML(root).
C10_DeclarationKept ==
  (pc = "prettified" /\ parsed.root # NullNode) =>
    /\ DeclarationLength(xmlInput) # 0 =>
         pretty = SubSeq(xmlInput, 1, DeclarationLength(xmlInput)) \o CRLF
                    \o serializeXML(parsed.root, 0)
    /\ DeclarationLength(Drop(xmlInput, SkipWS(xmlInput, 1) - 1)) = 0 =>
         pretty = serializeXML(parsed.root, 0)

\* serializeXML(node, atLevel) has returned
Serialized == pc \in {"serialized", "reparsed"} /\ node # NullNode

RECURSIVE Flatten(_)
\* the concatenation of a sequence of strings
Flatten(strings) ==
  IF strings = <<>> THEN <<>> ELSE strings[1] \o Flatten(Drop(strings, 1))

\* the entity that stands for a character
EntityFor(c) ==
  CASE c = "&" -> <<"&", "amp", ";">>
    [] c = "<" -> <<"&", "lt", ";">>
    [] c = ">" -> <<"&", "gt", ";">>
    [] c = "\"" -> <<"&", "quot", ";">>
    [] c = "'" -> <<"&", "apos", ";">>
    [] OTHER -> <<c>>

\* a string with each of & < > " ' replaced, once, by its entity
Escaped(str) == Flatten([i \in 1..Len(str) |-> EntityFor(str[i])])

\* <name a1="v1" a2="v2", the attributes in their order
TagStart(n) ==
  <<"<">> \o n.name
  \o Flatten([i \in 1..Len(n.attributes) |->
                <<" ">> \o n.attributes[i].name \o <<"=", "\"">>
                \o Escaped(n.attributes[i].value) \o <<"\"">>])

Spaces(k) == [i \in 1..k |-> " "]

EndsWith(str, suffix) ==
  /\ Len(str) >= Len(suffix)
  /\ SubSeq(str, Len(str) - Len(suffix) + 1, Len(str)) = suffix

HasLineBreak(str) == \E i \in 1..Len(str) : str[i] \in {"\r", "\n"}

RECURSIVE ElementLines(_, _)
\* the lines of an element written at level k: its opening tag with its
\* content, its children one level further in, its closing tag
ElementLines(n, k) ==
  LET content == IF n.content = Null THEN <<>> ELSE Escaped(n.content)
      close == <<"<", "/">> \o n.name \o <<">">>
  IN  IF n.children = <<>>
      THEN <<Spaces(2 * k) \o TagStart(n)
             \o (IF content = <<>> THEN <<"/", ">">>
                 ELSE <<">">> \o content \o close)>>
      ELSE <<Spaces(2 * k) \o TagStart(n) \o <<">">> \o content>>
           \o Flatten([i \in 1..Len(n.children) |->
                         ElementLines(n.children[i], k + 1)])
           \o <<Spaces(2 * k) \o close>>

\* lines joined by CRLF, none after the last
JoinLines(lines) ==
  Flatten([i \in 1..Len(lines) |->
             IF i < Len(lines) THEN lines[i] \o <<"\r", "\n">> ELSE lines[i]])

\* every line break of str is a CR followed by a LF
AllBreaksCRLF(str) ==
  \A i \in 1..Len(str) :
    /\ str[i] = "\n" => i > 1 /\ str[i - 1] = "\r"
    /\ str[i] = "\r" => i < Len(str) /\ str[i + 1] = "\n"

RECURSIVE HasBreakInValues(_)
\* some attribute value or content of the tree holds a line break
HasBreakInValues(n) ==
  \/ n.content # Null /\ HasLineBreak(n.content)
  \/ \E i \in 1..Len(n.attributes) : HasLineBreak(n.attributes[i].value)
  \/ \E i \in 1..Len(n.children) : HasBreakInValues(n.children[i])

\* the layout serializeXML gives a node with children
ChildrenLayout ==
  /\ serialized = JoinLines(ElementLines(node, atLevel))
  /\ StartsWith(serialized, Spaces(2 * atLevel) \o <<"<">>, 1)
  /\ \A i \in 1..Len(node.children) :
       StartsWith(ElementLines(node.children[i], atLevel + 1)[1],
                  Spaces(2 * (atLevel + 1)) \o <<"<">>, 1)
  /\ serialized[Len(serialized)] \notin {"\r", "\n"}
  /\ EndsWith(serialized,
              Spaces(2 * atLevel) \o <<"<", "/">> \o node.name \o <<">">>)

\* C12, as claimed: a node with children is written at level L as its
\* opening tag and content, CRLF, its children at level L+1 separated by
\* CRLF, CRLF, 2L spaces and its closing tag; every element starts its line
\* with two spaces per level, the output does not end with a line break, and
\* all line breaks of the output are CRLF.
C12_ChildrenFormat ==
  (Serialized /\ node.children # <<>>) =>
    ChildrenLayout /\ AllBreaksCRLF(serialized)

\* C12, amended: the same layout, where the line breaks that serializeXML
\* writes between elements are CRLF; content and attribute values are
\* copied with the line breaks they hold, so all line breaks of the output
\* are CRLF when no content and no attribute value holds one.
C12_ChildrenLayout ==
  (Serialized /\ node.children # <<>>) =>
    /\ ChildrenLayout
    /\ ~HasBreakInValues(node) => AllBreaksCRLF(serialized)

C12_Witness ==
  /\ pc = "serialized" /\ node = ExampleNested /\ atLevel = 2
  /\ serialized = JoinLines(ElementLines(node, 2))
  /\ Len(ElementLines(node, 2)) = 7


\* the character an entity name stands for; "" for any other name
CharacterFor(name) ==
  CASE name = "amp" -> "&"
    [] name = "lt" -> "<"
    [] name = "gt" -> ">"
    [] name = "quot" -> "\""
    [] name = "apos" -> "'"
    [] OTHER -> ""

RECURSIVE Decoded(_)
\* a string with each &amp; &lt; &gt; &quot; &apos; read as its character
Decoded(s) ==
  IF s = <<>> THEN <<>>
  ELSE IF /\ Len(s) >= 3 /\ s[1] = "&" /\ s[3] = ";"
          /\ CharacterFor(s[2]) # ""
       THEN <<CharacterFor(s[2])>> \o Decoded(Drop(s, 3))
       ELSE <<s[1]>> \o Decoded(Drop(s, 1))

\* no two strings of Strings have the same escapeXML
EscapeIsInjective ==
  Cardinality({escapeXML(t) : t \in Strings}) = Cardinality(Strings)

\* C13: escapeXML replaces & < > " ' by &amp; &lt; &gt; &quot; &apos;, & first,
\* so that no ampersand of an entity is escaped again: decoding the entities
\* of escapeXML(s) gives s, escapeXML is injective and its output holds none
\* of < > " '.
C13_EscapeOnce ==
  pc = "escaped" =>
    /\ escaped = Escaped(strInput)
    /\ Decoded(escaped) = strInput
    /\ \A i \in 1..Len(escaped) : escaped[i] \notin {"<", ">", "\"", "'"}
    /\ EscapeIsInjective

C13_Witness ==
  /\ pc = "escaped" /\ strInput = <<"&", "amp", ";">>
  /\ escaped = <<"&", "amp", ";", "amp", ";">>

(***************************************************************************)
(* The grid: addresses, grouping, tables                                   *)
(***************************************************************************)
RECURSIVE ExpectedAddress(_, _)
\* the address of the node at pos: "/" and the tag name for the root; below
\* it the address of the parent, "/", the tag name and, unless the node is the
\* only child of its parent with that name, "[k]", k its 1-based place among
\* the children of that name
ExpectedAddress(tree, pos) ==
  IF pos = <<>> THEN <<"/">> \o tree.name
  ELSE LET up == SubSeq(pos, 1, Len(pos) - 1)
           i == pos[Len(pos)]
           siblings == NodeAt(tree, up).children
           same == {j \in 1..Len(siblings) : siblings[j].name = siblings[i].name}
       IN  ExpectedAddress(tree, up) \o <<"/">> \o siblings[i].name
             \o (IF Cardinality(same) = 1 THEN <<>>
                 ELSE <<"[">> \o Decimal(Cardinality({j \in same : j <= i}))
                        \o <<"]">>)

\* the views that stand for a node of the tree
NodeKinds == {"GridNode", "row", "leaf", "content"}

\* C14: every node the grid shows has the address "/" + tag for the root,
\* parentAddress/tag for an only child of that name and parentAddress/tag[k]
\* otherwise, k counting the same-named siblings from 1 in document order; an
\* attribute has elementAddress/@name; the three items of a list are
\* /list/item[1], /list/item[2], /list/item[3].
C14_Addresses ==
  parsedData # NullNode =>
    /\ \A v \in GridViews[parsedData] :
         /\ v.kind \in NodeKinds =>
              v.path = ExpectedAddress(parsedData, v.pos)
         /\ v.kind = "attribute" =>
              v.path = ExpectedAddress(parsedData, v.pos) \o <<"/", "@">>
                         \o v.tagName
    /\ \A id \in DOMAIN mounted :
         id.kind = "GridNode" =>
           mounted[id].path = ExpectedAddress(parsedData, id.pos)
    /\ parsedData = parseXML(GridList).root =>
         {v.path : v \in {w \in GridViews[parsedData] : w.kind = "row"}}
           = { <<"/", "list", "/", "item", "[", d, "]">> : d \in {"1", "2", "3"} }

\* a node three levels down is mounted, below a table row and an only child
C14_Witness ==
  /\ parsedData = parseXML(GridRows).root
  /\ GridNodeId(<<2, 1, 1>>) \in DOMAIN mounted
  /\ mounted[GridNodeId(<<2, 1, 1>>)].path
       = <<"/", "x", "/", "y", "[", "2", "]", "/", "b", "/", "a">>
  /\ \E v \in GridViews[parsedData] : v.kind = "attribute"

\* C15: within one parsed tree no two distinct nodes are shown with the same
\* address, no two distinct attributes with the same attribute address, and
\* no node with the address of an attribute.
C15_AddressesUnique ==
  parsedData # NullNode =>
    LET views == GridViews[parsedData]
        nodes == {v \in views : v.kind \in NodeKinds}
        attributes == {v \in views : v.kind = "attribute"}
    IN  /\ \A v, w \in nodes : v.path = w.path => v.pos = w.pos
        /\ \A v, w \in attributes :
             v.path = w.path => v.pos = w.pos /\ v.tagName = w.tagName
        /\ \A v \in nodes, w \in attributes : v.path # w.path
        /\ \A id, other \in DOMAIN mounted :
             /\ id.kind = "GridNode"
             /\ other.kind = "GridNode"
             /\ mounted[id].path = mounted[other].path
             => id = other

\* an element with an attribute b and a child b is shown, its child mounted
C15_Witness ==
  /\ parsedData = parseXML(GridRows).root
  /\ GridNodeId(<<1, 1>>) \in DOMAIN mounted
  /\ GridNodeId(<<2, 1>>) \in DOMAIN mounted
  /\ \E v \in GridViews[parsedData] :
       v.kind = "attribute" /\ v.pos = <<1>> /\ v.tagName = <<"b">>

\* the step that runs the effects of a view action just dispatched
ProcessesAction(type) ==
  /\ actionPending
  /\ pending # {}
  /\ viewAction.type = type

\* C16: when an EXPAND_PATH action targeting T is processed, a mounted node
\* or table at address A is set to expanded if and only if A starts with T as
\* a plain string prefix; every node or table whose address does not start
\* with T keeps its expanded or collapsed state.
C16_ExpandPathPrefix ==
  [][ ProcessesAction("EXPAND_PATH") =>
        \A id \in DOMAIN mounted :
          \/ crashed'
          \/ /\ id \in DOMAIN mounted'
             /\ mounted'[id].isExpanded =
                  IF StartsWith(mounted[id].path, viewAction.path, 1)
                  THEN TRUE ELSE mounted[id].isExpanded ]_vars

\* the action for /x/a has been processed: the collapsed node at /x/ab, whose
\* address only starts with the target, is expanded by it, as is /x/a
C16_Witness ==
  /\ viewAction = ViewAction("EXPAND_PATH", <<"/", "x", "/", "a">>)
  /\ ~actionPending
  /\ GridNodeId(<<2>>) \in DOMAIN mounted
  /\ mounted[GridNodeId(<<2>>)].path = <<"/", "x", "/", "a", "b">>
  /\ mounted[GridNodeId(<<2>>)].isExpanded
  /\ ~mounted[GridNodeId(<<2>>)].isRecursivelyExpanded
  /\ mounted[GridNodeId(<<1>>)].isExpanded
  /\ mounted[GridNodeId(<<>>)].isExpanded

RECURSIVE Positions(_)
\* the positions of the nodes of a tree
Positions(tree) ==
  {<<>>} \cup UNION { {<<i>> \o p : p \in Positions(tree.children[i])} :
                      i \in 1..Len(tree.children) }

RECURSIVE FirstOccurrences(_, _)
\* the distinct names of children, in the order of their first occurrence
FirstOccurrences(children, seen) ==
  IF children = <<>> THEN <<>>
  ELSE IF Head(children).name \in seen
  THEN FirstOccurrences(Tail(children), seen)
  ELSE <<Head(children).name>>
         \o FirstOccurrences(Tail(children), seen \cup {Head(children).name})

\* C17: for every node, whatever the tag names of its children, grouping the
\* children does not fail; the keys of the mapping are the distinct child tag
\* names in first-occurrence order, the value of a name is the sequence of all
\* children of that name in their original order, and every child is in
\* exactly one group.
C17_GroupingTotal ==
  /\ ~crashed
  /\ parsedData # NullNode =>
       \A pos \in Positions(parsedData) :
         LET children == NodeAt(parsedData, pos).children
             grouped == groupedChildren(NodeAt(parsedData, pos))
         IN  /\ ~grouped.threw
             /\ [g \in 1..Len(grouped.groups) |-> grouped.groups[g].tagName]
                  = FirstOccurrences(children, {})
             /\ \A g \in 1..Len(grouped.groups) :
                  grouped.groups[g].members
                    = Matches(children, grouped.groups[g].tagName, 1)
             /\ \A i \in 1..Len(children) :
                  Cardinality({g \in 1..Len(grouped.groups) :
                                 \E k \in 1..Len(grouped.groups[g].members) :
                                   grouped.groups[g].members[k] = i}) = 1

\* the children of the node at pos that a table of name tagName would hold
TableNodes(pos, tagName) ==
  LET siblings == NodeAt(parsedData, pos).children
      members == Matches(siblings, tagName, 1)
  IN  [k \in 1..Len(members) |-> siblings[members[k]]]

\* the header cells of the mounted table id
HeaderOf(id) == headerRow(columns(TableNodes(id.pos, id.tagName)))

Ascending(names) ==
  \A i, j \in 1..Len(names) : i < j => Before(names[i], names[j])

AttributeNames(members) ==
  UNION {{a.name : a \in Range(m.attributes)} : m \in Range(members)}
ChildNames(members) ==
  UNION {{c.name : c \in Range(m.children)} : m \in Range(members)}

\* an expanded GridNode shows each group of its children of more than one
\* member as one table, with one row per member in document order, and each
\* group of one member as a nested GridNode
GroupsShown ==
  \A id \in DOMAIN mounted :
    id.kind = "GridNode" /\ mounted[id].isExpanded =>
      LET siblings == NodeAt(parsedData, id.pos).children
          names == FirstOccurrences(siblings, {})
      IN  \A g \in 1..Len(names) :
            LET members == Matches(siblings, names[g], 1)
                table == NodeTableId(id.pos, names[g])
            IN  IF Len(members) > 1
                THEN /\ table \in DOMAIN mounted
                     /\ \A r \in 1..Len(members) :
                          /\ GridNodeId(Append(id.pos, members[r]))
                               \notin DOMAIN mounted
                          /\ \E v \in GridViews[parsedData] :
                               /\ v.kind = "row"
                               /\ v.parent = table
                               /\ v.pos = Append(id.pos, members[r])
                               /\ v.path = mounted[table].path \o <<"[">>
                                             \o Decimal(r) \o <<"]">>
                     /\ Cardinality({v \in GridViews[parsedData] :
                                       v.kind = "row" /\ v.parent = table})
                          = Len(members)
                ELSE /\ table \notin DOMAIN mounted
                     /\ GridNodeId(Append(id.pos, members[1]))
                          \in DOMAIN mounted

\* C18 as stated: a group of more than one member is one table with a row per
\* sibling, a group of one member is a nested panel, and the columns of a table
\* are one per distinct name among the attribute names and child tag names of
\* its siblings, the whole sequence sorted.
C18_TablesSorted ==
  /\ GroupsShown
  /\ \A id \in DOMAIN mounted :
       id.kind = "NodeTable" =>
         LET header == HeaderOf(id)
             names == [i \in 1..Len(header) |-> header[i].name]
             members == TableNodes(id.pos, id.tagName)
         IN  /\ Ascending(names)
             /\ Range(names) = AttributeNames(members) \cup ChildNames(members)

\* C18 as the code has it: under an expanded GridNode a group of more than one
\* member is one table with a row per sibling in document order and a group of
\* one member is a nested GridNode; the columns of a table are one per
\* distinct attribute name, sorted, followed by one per distinct child tag
\* name, sorted; in a row the children of one name share a cell, each of them
\* a leaf value or a GridNode, whatever their number.
C18_TablesAndColumns ==
  /\ GroupsShown
  /\ \A id \in DOMAIN mounted :
       id.kind = "NodeTable" =>
         LET header == HeaderOf(id)
             members == TableNodes(id.pos, id.tagName)
             attributes == SelectSeq(header, LAMBDA h : h.kind = "attribute")
             children == SelectSeq(header, LAMBDA h : h.kind = "child")
         IN  /\ header = attributes \o children
             /\ Ascending([i \in 1..Len(attributes) |-> attributes[i].name])
             /\ Ascending([i \in 1..Len(children) |-> children[i].name])
             /\ {h.name : h \in Range(attributes)} = AttributeNames(members)
             /\ {h.name : h \in Range(children)} = ChildNames(members)
             /\ \A v \in GridViews[parsedData] :
                  v.parent = id => v.kind \in {"row", "attribute", "leaf", "GridNode"}
             /\ mounted[id].isExpanded =>
                  \A v \in GridViews[parsedData] :
                    v.parent = id /\ v.kind = "GridNode" =>
                      IdOf(v) \in DOMAIN mounted

\* an expanded table whose rows have the attributes b and k and the child b:
\* the columns are @b, @k, b, and the children b of its rows are mounted
C18_Witness ==
  /\ parsedData = parseXML(GridRows).root
  /\ NodeTableId(<<>>, <<"y">>) \in DOMAIN mounted
  /\ mounted[NodeTableId(<<>>, <<"y">>)].isExpanded
  /\ GridNodeId(<<1, 1>>) \in DOMAIN mounted
  /\ Len(HeaderOf(NodeTableId(<<>>, <<"y">>))) = 3

(***************************************************************************)
(* parseXML: content, exceptions                                           *)
(***************************************************************************)
\* the text and CDATA children of an element, each trimmed, the empty ones
\* dropped
DirectFragments(childNodes) ==
  LET texts == SelectSeq(childNodes, LAMBDA c :
                 c.nodeType \in {"TEXT_NODE", "CDATA_SECTION_NODE"})
      trimmed == [i \in 1..Len(texts) |-> Trim(texts[i].nodeValue)]
  IN  SelectSeq(trimmed, LAMBDA t : t # <<>>)

RECURSIVE JoinWithSpace(_)
JoinWithSpace(fragments) ==
  IF Len(fragments) = 1 THEN fragments[1]
  ELSE fragments[1] \o <<" ">> \o JoinWithSpace(Tail(fragments))

RECURSIVE ContentAsClaimed(_, _)
\* n and the nodes below it have the content the claim gives the element dom
ContentAsClaimed(dom, n) ==
  LET fragments == DirectFragments(dom.childNodes)
      elements == SelectSeq(dom.childNodes, LAMBDA c :
                    c.nodeType = "ELEMENT_NODE")
  IN  /\ n.content = IF fragments = <<>> THEN Null
                     ELSE JoinWithSpace(fragments)
      /\ Len(n.children) = Len(elements)
      /\ \A i \in 1..Len(elements) : ContentAsClaimed(elements[i], n.children[i])

RECURSIVE ContentTrimmed(_)
\* the content of n and of the nodes below it is null or a non-empty string
\* without white space at either end
ContentTrimmed(n) ==
  /\ \/ n.content = Null
     \/ /\ n.content # <<>>
        /\ n.content[1] \notin WhiteSpace
        /\ n.content[Len(n.content)] \notin WhiteSpace
  /\ \A i \in 1..Len(n.children) : ContentTrimmed(n.children[i])

\* C19: the content of every node parseXML returns is the direct text and
\* CDATA fragments of its element, each trimmed, the empty ones dropped,
\* joined in document order by one space wherever the child elements stand;
\* so it is null or a non-empty string with no white space at either end.
C19_Content ==
  /\ (TextParsed /\ parsed.root # NullNode) =>
       LET wrapper == ParseDocument(WrappedXml(SanitizedXml(xmlInput)))
           elements == SelectSeq(wrapper.childNodes, LAMBDA c :
                         c.nodeType = "ELEMENT_NODE")
       IN  /\ \/ ContentAsClaimed(wrapper, parsed.root)
              \/ /\ Len(elements) = 1
                 /\ DirectFragments(wrapper.childNodes) = <<>>
                 /\ ContentAsClaimed(elements[1], parsed.root)
           /\ ContentTrimmed(parsed.root)
  /\ (pc = "reparsed" /\ reparsed.root # NullNode) =>
       ContentTrimmed(reparsed.root)

\* text, a child element, a comment and a CDATA section in one element: the
\* content is the two fragments with one space between them
C19_Witness ==
  /\ pc = "parsed"
  /\ parsed.root # NullNode
  /\ parsed.root.name = <<"a">>
  /\ parsed.root.content = <<"x", " ", "<", "y">>
  /\ Len(parsed.root.children) = 1

\* C20: parseXML never throws to its caller: an exception raised while the
\* DOM is converted into the Node tree is caught and returned as root = null
\* with error = "Parsing error: " followed by the message of the exception.
C20_NeverThrows ==
  TextParsed =>
    /\ DOMAIN parsed = {"root", "error"}
    /\ raised # Null =>
         /\ parsed.root = NullNode
         /\ parsed.error = <<"Parsing error: ">> \o raised
    /\ raised = Null => (parsed.root = NullNode \/ parsed.error = Null)

\* the conversion of <x><y>1</y></x> exceeded the stack and parseXML returned
C20_Witness ==
  /\ pc = "caught"
  /\ xmlInput = ExampleDocument
  /\ raised = StackOverflowMessage
  /\ parsed.error = <<"Parsing error: ", "Maximum call stack size exceeded">>

(***************************************************************************)
(* parseXML and prettifyXML: prolog, ids, nesting, idempotence             *)
(***************************************************************************)
\* leading XML declaration and DOCTYPE declaration, as documents have them
Prologs ==
  { XmlDeclaration \o <<"\n">> \o <<"<", "!", "DOCTYPE", " ", "x", ">">>
      \o <<"\n">>,
    XmlDeclaration \o DoctypeWithSubset,
    XmlDeclaration }

Bodies == {ExampleDocument, <<"<", "a", "/", ">">>, <<"<", "a", ">", "<", "/", "a", ">">>}

\* C21: a leading XML declaration and a leading DOCTYPE declaration are
\* stripped: parseXML of declaration, DOCTYPE and body X reports no error and
\* returns a tree structurally equal to that of parseXML(X).
C21_PrologStripped ==
  pc = "parsed" =>
    \A p \in Prologs, X \in Bodies :
      xmlInput = p \o X =>
        /\ parsed.error = Null
        /\ parsed.root # NullNode
        /\ SameTree(parsed.root, parseXML(X).root)

\* C22: within one run every Node parseXML returns has an id distinct from
\* the id of every other Node, of the same tree and of other parse calls.
C22_IdsUnique == \A i \in GeneratedIds : ids[i] <= 1

RECURSIVE TagEvents(_, _)
\* the tags of a text from position i on, in the order they are written:
\* start tags, end tags and empty-element tags with their names
TagEvents(str, i) ==
  LET lt == IndexOf(str, "<", i)
      isEnd == At(str, lt + 1) = "/"
      from == IF isEnd THEN lt + 2 ELSE lt + 1
      to == NameEnd(str, from)
      gt == IndexOf(str, ">", to)
  IN  IF lt = 0 THEN <<>>
      ELSE <<[kind |-> IF isEnd THEN "end"
                       ELSE IF str[gt - 1] = "/" THEN "empty" ELSE "start",
              name |-> SubSeq(str, from, to - 1)]>>
           \o TagEvents(str, gt + 1)

RECURSIVE TreeEvents(_), ForestEvents(_)
\* the tags of a tree in depth-first document order
ForestEvents(children) ==
  IF children = <<>> THEN <<>>
  ELSE TreeEvents(children[1]) \o ForestEvents(Tail(children))

TreeEvents(n) ==
  IF n.children = <<>> /\ n.content \in {Null, <<>>}
  THEN <<[kind |-> "empty", name |-> n.name]>>
  ELSE <<[kind |-> "start", name |-> n.name]>>
       \o ForestEvents(n.children)
       \o <<[kind |-> "end", name |-> n.name]>>

\* C23: serializeXML writes every node of the tree exactly once: for each tag
\* name the output has as many opening tags of that name as the tree has nodes
\* of that name, and the tags are nested in depth-first document order.
C23_EachNodeOnce ==
  (pc \in {"serialized", "reparsed"} /\ serialized # TypeError) =>
    LET written == TagEvents(serialized, 1)
        expected == TreeEvents(node)
        opening(events, name) ==
          Cardinality({i \in 1..Len(events) :
                         events[i].kind # "end" /\ events[i].name = name})
    IN  /\ written = expected
        /\ \A i \in 1..Len(expected) :
             opening(written, expected[i].name)
               = opening(expected, expected[i].name)
        /\ Cardinality({i \in 1..Len(written) : written[i].kind # "end"})
             = TreeSize(node)

\* a tree with two children of one name, one of them with children of its
\* own, has been serialized
C23_Witness ==
  /\ pc = "serialized"
  /\ node = ExampleNested
  /\ Len(TagEvents(serialized, 1)) = 8

\* C27: prettifyXML is idempotent: for every text x,
\* prettifyXML(prettifyXML(x)) = prettifyXML(x).
C27_PrettifyIdempotent == pc = "prettifiedAgain" => prettyAgain = pretty

\* C25: when a COLLAPSE_PATH action targeting T is processed, every mounted
\* node or table whose address starts with T and differs from T becomes
\* collapsed (it is collapsed wherever it is still shown), the one at T keeps
\* its expanded state, every one whose address starts with T has its
\* recursive-expand indicator cleared, and every one whose address does not
\* start with T is unchanged.
C25_CollapsePathPrefix ==
  [][ ProcessesAction("COLLAPSE_PATH") =>
        \A id \in DOMAIN mounted :
          \/ crashed'
          \/ LET T == viewAction.path
                 A == mounted[id].path
             IN IF ~StartsWith(A, T, 1)
                THEN id \in DOMAIN mounted' /\ mounted'[id] = mounted[id]
                ELSE IF A = T
                THEN /\ id \in DOMAIN mounted'
                     /\ mounted'[id].isExpanded = mounted[id].isExpanded
                     /\ ~mounted'[id].isRecursivelyExpanded
                ELSE id \in DOMAIN mounted' =>
                       /\ ~mounted'[id].isExpanded
                       /\ ~mounted'[id].isRecursivelyExpanded ]_vars

\* COLLAPSE_PATH(/x/a) was processed in <x><a><b/></a><ab><b/></ab></x> after
\* everything under /x/a had been expanded: /x/a is still expanded, /x/a/b and
\* /x/ab are collapsed
C25_Witness ==
  /\ viewAction = ViewAction("COLLAPSE_PATH", <<"/", "x", "/", "a">>)
  /\ ~actionPending
  /\ pending = {}
  /\ mounted[GridNodeId(<<1>>)].path = <<"/", "x", "/", "a">>
  /\ mounted[GridNodeId(<<1>>)].isExpanded
  /\ ~mounted[GridNodeId(<<1>>)].isRecursivelyExpanded
  /\ GridNodeId(<<1, 1>>) \in DOMAIN mounted
  /\ ~mounted[GridNodeId(<<1, 1>>)].isExpanded
  /\ mounted[GridNodeId(<<2>>)].path = <<"/", "x", "/", "a", "b">>
  /\ ~mounted[GridNodeId(<<2>>)].isExpanded

\* C30: once the effects of the last view action have run, a node or table
\* whose recursive-expand indicator is on is itself expanded.
C30_RecursiveImpliesExpanded ==
  Idle =>
    \A id \in DOMAIN mounted :
      mounted[id].isRecursivelyExpanded => mounted[id].isExpanded

\* C28: in every state of the UI, an error message that is not null implies
\* that no parsed tree is displayed.
C28_ErrorMeansNoTree == error # Null => parsedData = NullNode

\* what C24 requires of the step that parses the text X
ParsedAndShown(X) ==
  LET result == parseXML(X)
  IN IF result.error # Null
     THEN /\ error' = result.error
          /\ parsedData' = NullNode
          /\ mounted' = NothingMounted
     ELSE /\ error' = Null
          /\ parsedData' = result.root
          /\ viewAction' = NoAction
          /\ result.root = NullNode => mounted' = NothingMounted
          /\ result.root # NullNode /\ ~crashed' =>
               /\ GridNodeId(<<>>) \in DOMAIN mounted'
               /\ \A id \in DOMAIN mounted' :
                    \E v \in ComponentsOf(result.root) :
                      IdOf(v) = id /\ mounted'[id].path = v.path

ParsesText(X) ==
  \/ X = inputXml /\ Submit
  \/ X = SAMPLE_XML /\ Sample
  \/ Len(Trim(X)) > 0 /\ handlePaste(X) /\ AppUnchanged
  \/ X \in reading /\ Truthy(X) /\ onload(X) /\ AppUnchanged

ParsesSomeText == \E X \in AppTexts \cup {inputXml} : ParsesText(X)

\* a component the step mounts starts collapsed under COLLAPSE_ALL, expanded
\* under EXPAND_ALL and expanded exactly at depth 0 otherwise, and its effect
\* is still to run
MountedByRule ==
  ~ParsesSomeText /\ ~crashed' =>
    \A id \in DOMAIN mounted' \ DOMAIN mounted :
      /\ mounted'[id].isExpanded =
           IF viewAction'.type = "COLLAPSE_ALL" THEN FALSE
           ELSE IF viewAction'.type = "EXPAND_ALL" THEN TRUE
           ELSE ComponentAt(parsedData', id).depth < 1
      /\ id \in pending'

\* the effect a component runs once mounted applies the prefix rule of
\* EXPAND_PATH(T) and of COLLAPSE_PATH(T) to it
PrefixRuleOnMount ==
  viewAction.type \in {"EXPAND_PATH", "COLLAPSE_PATH"} /\ ~crashed' =>
    \A id \in pending \cap DOMAIN mounted' :
      LET T == viewAction.path
          A == mounted[id].path
      IN mounted'[id].isExpanded =
           IF viewAction.type = "EXPAND_PATH"
           THEN StartsWith(A, T, 1) \/ mounted[id].isExpanded
           ELSE ~(StartsWith(A, T, 1) /\ A # T) /\ mounted[id].isExpanded

\* the tree of a successful parse is displayed as a tree displayed for the
\* first time is
FreshAfterParse ==
  ParsesSomeText /\ error' = Null /\ parsedData' # NullNode =>
    /\ viewAction' = NoAction
    /\ mounted' = Render(parsedData', NothingMounted, NoAction).mounted

\* C29: a view action stays in force until it is replaced or a successful
\* parse resets it to null: a node or table mounted under COLLAPSE_ALL starts
\* collapsed, under EXPAND_ALL expanded, under EXPAND_PATH(T) or
\* COLLAPSE_PATH(T) it is expanded or collapsed by the prefix rule as soon as
\* it mounts, under null it starts expanded exactly at depth 0; and after a
\* successful parse no earlier expand or collapse action affects the new tree.
C29_ActionInForce ==
  [][MountedByRule /\ PrefixRuleOnMount /\ FreshAfterParse]_vars

RECURSIVE Within(_, _, _)
\* the component v is the component top or is rendered inside it
Within(tree, v, top) ==
  \/ IdOf(v) = top
  \/ /\ v.parent # NoComponent
     /\ Within(tree, ComponentAt(tree, v.parent), top)

\* every node and table of the subtree of the component top is mounted and
\* expanded
ExpandedUnder(top) ==
  \A v \in ComponentsOf(parsedData) :
    Within(parsedData, v, top) =>
      IdOf(v) \in DOMAIN mounted /\ mounted[IdOf(v)].isExpanded

\* the recursive-expand control of the component top has just been activated
Activated(top) ==
  /\ actionPending
  /\ viewAction.type = "EXPAND_PATH"
  /\ top \in DOMAIN mounted
  /\ mounted[top].path = viewAction.path

AllComponents ==
  UNION {{IdOf(v) : v \in ComponentsOf(tree)} : tree \in GridTrees}

\* C26: after the recursive-expand control of a node or table is activated,
\* eventually every node and table of its subtree is mounted and expanded,
\* those not mounted at the time of the click included (no other view action
\* and no toggle can come before the effects of the click have run).
C26_RecursiveExpandCompletes ==
  \A top \in AllComponents :
    Activated(top) ~> (Idle /\ ExpandedUnder(top))

\* the same, for the displays in which no render throws
C26_UnlessCrashed ==
  \A top \in AllComponents :
    Activated(top) ~> (crashed \/ (Idle /\ ExpandedUnder(top)))

=============================================================================
